---- MODULE Spec2Model ----
(***************************************************************************)
(* Guest credit / balance reconciliation of LiveQuestionTime.              *)
(*                                                                         *)
(* The state is the store of src/lib/server-store.ts (sessions, guest      *)
(* payment records, questions, payments), the last HTTP request and        *)
(* its response.  Every action is one request handler of src/app/api, run  *)
(* to completion.  network is the amount the payment network reports as   *)
(* received on each incoming-payment URL, streamed the sum of the amounts  *)
(* the browser's monetization events have reported for it, wallet the way  *)
(* the resource server answers a GET of each URL.  inflight is the         *)
(* position of each request that is processed step by step, one step per  *)
(* await of the handler, with what the request has read so far.  page is   *)
(* the state of the viewer page: the payment URLs it has seen and the      *)
(* number of verifyPaymentReceipt calls it has under way for each URL.     *)
(* viewerCounts holds the counter viewers:<sessionId> of each session.     *)
(* A missing or empty request field is the empty string "" (both are       *)
(* falsy in the handlers); a missing number is 0 where the handler tests   *)
(* it with ||.                                                             *)
(***************************************************************************)
EXTENDS Integers, Sequences, FiniteSets, TLC

VARIABLES sessions, guestPayments, guestBalances, questions, payments, issuedIds,
          request, response, network, streamed, wallet, inflight, page,
          viewerCounts

vars == <<sessions, guestPayments, guestBalances, questions, payments, issuedIds,
          request, response, network, streamed, wallet, inflight, page, viewerCounts>>

\* the payment network, the browser's monetization stream and the
\* submissions in flight, which no run-to-completion handler writes
environment == <<network, streamed, wallet, inflight, page, viewerCounts>>

store == <<sessions, guestPayments, guestBalances, questions, payments>>

(***************************************************************************)
(* Bounds of the model.                                                    *)
(***************************************************************************)
MaxTotal == 150
MaxDebt == 50
MaxQuestions == 1
MaxUpvotes == 1
MaxUsed == 2
MaxInFlight == 2
MaxVerifying == 2
MaxFetch == 3
MaxViewers == 4

GuestIds == {"g1", "g2"}
SessionIds == {"s1"}
AssetCodes == {"USD", "EUR"}
AssetScales == {0, 2}
Prices == {50}
Urls == {"u1", "u2", "elsewhere"}
Submissions == {"a", "b"}

\* a resource server that answers every URL with its received amount at
\* scale 2
AnsweringWallet == [u \in Urls |-> [kind |-> "ok", assetScale |-> 2]]

\* the viewer page as it is mounted: useState(new Set()) of the URLs it has
\* seen, and no verifyPaymentReceipt call under way
MountedPage == [incomingPaymentUrls |-> {}, verifying |-> [u \in Urls |-> 0]]

\* no submission is being processed
\* no viewer has joined: no viewers:<sessionId> key, read as 0
NoViewers == [s \in SessionIds |-> 0]

NoneInFlight == [p \in Submissions |-> [pc |-> "idle"]]

(***************************************************************************)
(* Arithmetic of the store.                                                *)
(***************************************************************************)
Max(a, b) == IF a >= b THEN a ELSE b

Pow10(n) == IF n = 0 THEN 1 ELSE IF n = 1 THEN 10 ELSE 100

\* Values v in -300..300 for which the IEEE-754 double expression
\* v / 100 * 100 lies just below the integer v - 1 < . < v, so that
\* Math.floor of it is v - 1 (29 / 100 * 100 = 28.999999999999996,
\* -7 / 100 * 100 = -7.000000000000001).
DoubleShortfall == {-249, -247, -245, -243, -224, -222, -220, -218, -112,
                    -111, -110, -109, -56, -55, -28, -14, -7, 29, 57, 58,
                    113, 114, 115, 116, 201, 203, 205, 207, 226, 228, 230,
                    232, 251, 253, 255}

\* Math.floor(value / Math.pow(10, fromScale) * Math.pow(10, toScale)) in
\* double arithmetic, for scales 0 and 2 and |value| <= 300 at scale 2.
\* \div rounds toward minus infinity, as Math.floor does.
FloorConvert(value, fromScale, toScale) ==
  IF fromScale = 2 /\ toScale = 2 /\ value \in DoubleShortfall
    THEN value - 1
    ELSE (value * Pow10(toScale)) \div Pow10(fromScale)

(***************************************************************************)
(* Store reads.                                                            *)
(***************************************************************************)
NoSession == [questionPrice |-> 0, assetCode |-> "", assetScale |-> 0, status |-> ""]

hasSession(id) == id \in DOMAIN sessions

getSession(id) == IF hasSession(id) THEN sessions[id] ELSE NoSession

Key(guestId, sessionId) == guestId \o ":" \o sessionId

hasGuestPayment(gp, guestId, sessionId) == Key(guestId, sessionId) \in DOMAIN gp

Put(map, key, value) ==
  [k \in DOMAIN map \cup {key} |-> IF k = key THEN value ELSE map[k]]

QuestionIds == DOMAIN questions

\* the ids of the questions of one session
getQuestionsBySession(sessionId) ==
  {i \in QuestionIds : questions[i].sessionId = sessionId}

(***************************************************************************)
(* Guest payment operations.                                               *)
(***************************************************************************)
getGuestPayment(gp, guestId, sessionId) == gp[Key(guestId, sessionId)]

\* the record createOrUpdateGuestPayment stores: the existing one, or a new
\* one with no URL, total 0 and the currency it is given
createOrUpdateGuestPayment(gp, guestId, sessionId, assetCode, assetScale) ==
  IF hasGuestPayment(gp, guestId, sessionId)
    THEN gp
    ELSE Put(gp, Key(guestId, sessionId),
             [incomingPaymentUrls |-> <<>>, totalReceived |-> 0,
              assetCode |-> assetCode, assetScale |-> assetScale])

Includes(seq, x) == \E i \in 1..Len(seq) : seq[i] = x

\* a registration that appends the URL whether or not it is present
addIncomingPaymentUrlAgain(gp, guestId, sessionId, incomingPaymentUrl, assetCode, assetScale) ==
  LET created == createOrUpdateGuestPayment(gp, guestId, sessionId, assetCode, assetScale)
      guestPayment == getGuestPayment(created, guestId, sessionId)
  IN Put(created, Key(guestId, sessionId),
         [guestPayment EXCEPT !.incomingPaymentUrls =
            Append(guestPayment.incomingPaymentUrls, incomingPaymentUrl)])

addIncomingPaymentUrl(gp, guestId, sessionId, incomingPaymentUrl, assetCode, assetScale) ==
  LET created == createOrUpdateGuestPayment(gp, guestId, sessionId, assetCode, assetScale)
      guestPayment == getGuestPayment(created, guestId, sessionId)
      urls == IF Includes(guestPayment.incomingPaymentUrls, incomingPaymentUrl)
                THEN guestPayment.incomingPaymentUrls
                ELSE Append(guestPayment.incomingPaymentUrls, incomingPaymentUrl)
  IN Put(created, Key(guestId, sessionId),
         [guestPayment EXCEPT !.incomingPaymentUrls = urls])

\* session?.assetCode || assetCode and session?.assetScale ?? assetScale
sessionCurrencyOf(sessionId, assetCode) ==
  IF hasSession(sessionId) /\ sessions[sessionId].assetCode # ""
    THEN sessions[sessionId].assetCode ELSE assetCode

sessionScaleOf(sessionId, assetScale) ==
  IF hasSession(sessionId) THEN sessions[sessionId].assetScale ELSE assetScale

\* updateGuestBalance with the ratchet's Math.max dropped: a poll report
\* overwrites the stored total
updateGuestBalanceOverwrite(gp, guestId, sessionId, totalReceived, assetCode, assetScale, increment) ==
  LET sessionCurrency == sessionCurrencyOf(sessionId, assetCode)
      sessionScale == sessionScaleOf(sessionId, assetScale)
      created == createOrUpdateGuestPayment(gp, guestId, sessionId,
                                            sessionCurrency, sessionScale)
      guestPayment == getGuestPayment(created, guestId, sessionId)
      totalReceivedInSessionCurrency ==
        IF assetCode # sessionCurrency \/ assetScale # sessionScale
          THEN FloorConvert(totalReceived, assetScale, sessionScale)
          ELSE totalReceived
      existing ==
        IF guestPayment.assetCode # sessionCurrency
           \/ guestPayment.assetScale # sessionScale
          THEN FloorConvert(guestPayment.totalReceived, guestPayment.assetScale,
                            sessionScale)
          ELSE guestPayment.totalReceived
  IN [guestPayment EXCEPT
        !.totalReceived = IF increment
                            THEN existing + totalReceivedInSessionCurrency
                            ELSE totalReceivedInSessionCurrency,
        !.assetCode = sessionCurrency,
        !.assetScale = sessionScale]

\* updateGuestBalance without the final "always store in session currency"
\* assignments: the record keeps the currency it was created with
updateGuestBalanceKeepCurrency(gp, guestId, sessionId, totalReceived, assetCode, assetScale, increment) ==
  LET sessionCurrency == sessionCurrencyOf(sessionId, assetCode)
      sessionScale == sessionScaleOf(sessionId, assetScale)
      created == createOrUpdateGuestPayment(gp, guestId, sessionId,
                                            sessionCurrency, sessionScale)
      guestPayment == getGuestPayment(created, guestId, sessionId)
      totalReceivedInSessionCurrency ==
        IF assetCode # sessionCurrency \/ assetScale # sessionScale
          THEN FloorConvert(totalReceived, assetScale, sessionScale)
          ELSE totalReceived
      existing ==
        IF guestPayment.assetCode # sessionCurrency
           \/ guestPayment.assetScale # sessionScale
          THEN FloorConvert(guestPayment.totalReceived, guestPayment.assetScale,
                            sessionScale)
          ELSE guestPayment.totalReceived
  IN [guestPayment EXCEPT
        !.totalReceived = IF increment
                            THEN existing + totalReceivedInSessionCurrency
                            ELSE Max(existing, totalReceivedInSessionCurrency)]

\* the record updateGuestBalance computes for (guestId, sessionId); the
\* caller puts it into guestPayments and its total into guestBalances
updateGuestBalance(gp, guestId, sessionId, totalReceived, assetCode, assetScale, increment) ==
  LET sessionCurrency == sessionCurrencyOf(sessionId, assetCode)
      sessionScale == sessionScaleOf(sessionId, assetScale)
      created == createOrUpdateGuestPayment(gp, guestId, sessionId,
                                            sessionCurrency, sessionScale)
      guestPayment == getGuestPayment(created, guestId, sessionId)
      totalReceivedInSessionCurrency ==
        IF assetCode # sessionCurrency \/ assetScale # sessionScale
          THEN FloorConvert(totalReceived, assetScale, sessionScale)
          ELSE totalReceived
      existing ==
        IF guestPayment.assetCode # sessionCurrency
           \/ guestPayment.assetScale # sessionScale
          THEN FloorConvert(guestPayment.totalReceived, guestPayment.assetScale,
                            sessionScale)
          ELSE guestPayment.totalReceived
  IN [guestPayment EXCEPT
        !.totalReceived = IF increment
                            THEN existing + totalReceivedInSessionCurrency
                            ELSE Max(existing, totalReceivedInSessionCurrency),
        !.assetCode = sessionCurrency,
        !.assetScale = sessionScale]

(***************************************************************************)
(* The derived balance.                                                    *)
(***************************************************************************)
\* guestQuestions without the guestId fallback of the filter
guestQuestionsByAddress(guestId, sessionId) ==
  {i \in getQuestionsBySession(sessionId) :
     questions[i].submitterWalletAddress = guestId}

\* the questions getGuestBalance attributes to the guest
guestQuestions(guestId, sessionId) ==
  {i \in getQuestionsBySession(sessionId) :
     questions[i].submitterWalletAddress = guestId \/ questions[i].guestId = guestId}

\* creditsUsed that counts only the questions still in status paid
creditsUsedWhilePaid(guestId, sessionId) ==
  Cardinality({i \in guestQuestions(guestId, sessionId) :
                 questions[i].status = "paid"})

creditsUsed(guestId, sessionId) ==
  Cardinality({i \in guestQuestions(guestId, sessionId) :
                 questions[i].status # "pending_payment"})

NullBalance == [found |-> FALSE, balance |-> 0, totalReceived |-> 0,
                questionCredits |-> 0, assetCode |-> "", assetScale |-> 0]

\* questionCredits without the floor at zero
questionCreditsUnclamped(totalCreditsEarned, used) == totalCreditsEarned - used

\* Math.max(0, totalCreditsEarned - creditsUsed)
questionCreditsOf(totalCreditsEarned, used) == Max(0, totalCreditsEarned - used)

\* the displayed balance computed from the stored total, whatever its scale
balanceOfStoredTotal(guestPayment, totalReceivedInSessionCurrency, spent) ==
  Max(0, guestPayment.totalReceived - spent)

\* balance = totalReceivedInSessionCurrency - spent, returned as
\* Math.max(0, balance)
balanceOf(guestPayment, totalReceivedInSessionCurrency, spent) ==
  Max(0, totalReceivedInSessionCurrency - spent)

getGuestBalance(guestId, sessionId) ==
  IF ~hasGuestPayment(guestPayments, guestId, sessionId) \/ ~hasSession(sessionId)
    THEN NullBalance
    ELSE
      LET guestPayment == getGuestPayment(guestPayments, guestId, sessionId)
          session == getSession(sessionId)
          questionPrice == session.questionPrice
          totalReceivedInSessionCurrency ==
            IF guestPayment.assetCode # session.assetCode
               \/ guestPayment.assetScale # session.assetScale
              THEN FloorConvert(guestPayment.totalReceived, guestPayment.assetScale,
                                session.assetScale)
              ELSE guestPayment.totalReceived
          totalCreditsEarned ==
            IF questionPrice > 0
              THEN totalReceivedInSessionCurrency \div questionPrice
              ELSE 0
          spent == creditsUsed(guestId, sessionId) * questionPrice
      IN [found |-> TRUE,
          balance |-> balanceOf(guestPayment, totalReceivedInSessionCurrency, spent),
          totalReceived |-> guestPayment.totalReceived,
          questionCredits |-> questionCreditsOf(totalCreditsEarned,
                                                creditsUsed(guestId, sessionId)),
          assetCode |-> guestPayment.assetCode,
          assetScale |-> guestPayment.assetScale]

\* deductGuestCredit: "null", "throws" (Insufficient credits) or "ok"
deductGuestCredit(guestId, sessionId) ==
  LET currentBalance == getGuestBalance(guestId, sessionId)
  IN IF ~currentBalance.found THEN "null"
     ELSE IF currentBalance.questionCredits < 1 THEN "throws"
     ELSE "ok"

(***************************************************************************)
(* Requests and responses.  request is the route and body of the last      *)
(* request.  In response, balance, totalReceived and questionCredits are   *)
(* the fields of a returned GuestBalance (GET) or the total of a returned  *)
(* GuestPayment (register, ratchet, increment); 0 where there is none.     *)
(***************************************************************************)
Reply(status) ==
  [status |-> status, balance |-> 0, totalReceived |-> 0, questionCredits |-> 0]

ReplyPayment(guestPayment) ==
  [Reply(200) EXCEPT !.totalReceived = guestPayment.totalReceived]

InRange(total) == -MaxDebt <= total /\ total <= MaxTotal

EmptyStore ==
  /\ sessions = <<>>
  /\ guestPayments = <<>>
  /\ guestBalances = <<>>
  /\ questions = <<>>
  /\ payments = <<>>
  /\ issuedIds = {}
  /\ request = [op |-> ""]
  /\ response = Reply(0)

Init ==
  /\ EmptyStore
  /\ network = [u \in Urls |-> 0]
  /\ streamed = 0
  /\ wallet = AnsweringWallet
  /\ inflight = NoneInFlight
  /\ page = MountedPage
  /\ viewerCounts = NoViewers

(***************************************************************************)
(* /api/sessions and /api/sessions/[id]                                    *)
(***************************************************************************)
\* POST /api/sessions: id is the fresh nanoid(), assetCode and assetScale
\* are those of the host wallet
SessionsPOST(id, questionPrice, assetCode, assetScale) ==
  /\ id \notin issuedIds
  /\ request' = [op |-> "createSession", questionPrice |-> questionPrice]
  /\ IF questionPrice <= 0
       THEN /\ response' = Reply(400)
            /\ UNCHANGED <<sessions, issuedIds>>
       ELSE /\ sessions' = Put(sessions, id,
                               [questionPrice |-> questionPrice,
                                assetCode |-> assetCode,
                                assetScale |-> assetScale,
                                status |-> "draft", coHostTokens |-> <<>>])
            /\ issuedIds' = issuedIds \cup {id}
            /\ response' = Reply(201)
  /\ UNCHANGED <<guestPayments, guestBalances, questions, payments>>

\* PATCH /api/sessions/[id], regular update: the body's fields overwrite
\* the session's
SessionPATCH(id, questionPrice, assetCode, assetScale) ==
  /\ id \in issuedIds
  /\ request' = [op |-> "patchSession", id |-> id]
  /\ IF hasSession(id)
       THEN /\ sessions' = [sessions EXCEPT ![id] =
                              [@ EXCEPT !.questionPrice = questionPrice,
                                        !.assetCode = assetCode,
                                        !.assetScale = assetScale]]
            /\ response' = Reply(200)
       ELSE /\ response' = Reply(404)
            /\ UNCHANGED sessions
  /\ UNCHANGED <<guestPayments, guestBalances, questions, payments, issuedIds>>

\* DELETE /api/sessions/[id]
\* PATCH /api/sessions/[id] with action start or end
SessionPATCHStatus(id, action) ==
  /\ id \in issuedIds
  /\ action \in {"start", "end"}
  /\ request' = [op |-> "patchSession", id |-> id, action |-> action]
  /\ IF hasSession(id)
       THEN /\ sessions' = [sessions EXCEPT ![id].status =
                              IF action = "start" THEN "live" ELSE "ended"]
            /\ response' = Reply(200)
       ELSE /\ response' = Reply(404)
            /\ UNCHANGED sessions
  /\ UNCHANGED <<guestPayments, guestBalances, questions, payments, issuedIds>>

SessionDELETE(id) ==
  /\ id \in issuedIds
  /\ request' = [op |-> "deleteSession", id |-> id]
  /\ sessions' = [k \in DOMAIN sessions \ {id} |-> sessions[k]]
  /\ response' = Reply(200)
  /\ UNCHANGED <<guestPayments, guestBalances, questions, payments, issuedIds>>

(***************************************************************************)
(* /api/guest-payments                                                     *)
(***************************************************************************)
\* assetCode || "USD"
OrUSD(assetCode) == IF assetCode = "" THEN "USD" ELSE assetCode

\* assetScale || 2
OrTwo(assetScale) == IF assetScale = 0 THEN 2 ELSE assetScale

\* POST /api/guest-payments: register an incoming payment URL
GuestPaymentsPOST(guestId, sessionId, incomingPaymentUrl, assetCode, assetScale) ==
  /\ request' = [op |-> "registerUrl", guestId |-> guestId,
                 sessionId |-> sessionId,
                 incomingPaymentUrl |-> incomingPaymentUrl,
                 assetCode |-> assetCode, assetScale |-> assetScale]
  /\ IF guestId = "" \/ sessionId = "" \/ incomingPaymentUrl = ""
       THEN /\ response' = Reply(400)
            /\ UNCHANGED guestPayments
       ELSE /\ guestPayments' =
                 addIncomingPaymentUrl(guestPayments, guestId, sessionId,
                                       incomingPaymentUrl, OrUSD(assetCode),
                                       OrTwo(assetScale))
            /\ response' = ReplyPayment(getGuestPayment(guestPayments', guestId,
                                                        sessionId))
  /\ UNCHANGED <<sessions, guestBalances, questions, payments, issuedIds>>

\* a GET that answers 404 when getGuestBalance returns null
ReplyBalanceOrNotFound(balance) ==
  IF balance.found
    THEN [Reply(200) EXCEPT !.balance = balance.balance,
                            !.totalReceived = balance.totalReceived,
                            !.questionCredits = balance.questionCredits]
    ELSE Reply(404)

\* the body of the GET response: the balance, or zeros when
\* getGuestBalance returns null
ReplyBalance(balance) ==
  IF balance.found
    THEN [Reply(200) EXCEPT !.balance = balance.balance,
                            !.totalReceived = balance.totalReceived,
                            !.questionCredits = balance.questionCredits]
    ELSE Reply(200)

\* GET /api/guest-payments: the guest's balance, zeros when there is none
GuestPaymentsGET(guestId, sessionId) ==
  /\ request' = [op |-> "getBalance", guestId |-> guestId, sessionId |-> sessionId]
  /\ IF guestId = "" \/ sessionId = ""
       THEN response' = Reply(400)
       ELSE response' = ReplyBalance(getGuestBalance(guestId, sessionId))
  /\ UNCHANGED <<sessions, guestPayments, guestBalances, questions, payments,
                 issuedIds>>

\* PATCH /api/guest-payments: ratchet update
GuestPaymentsPATCH(guestId, sessionId, totalReceived, assetCode, assetScale) ==
  /\ request' = [op |-> "ratchet", guestId |-> guestId, sessionId |-> sessionId,
                 totalReceived |-> totalReceived,
                 assetCode |-> assetCode, assetScale |-> assetScale]
  /\ IF guestId = "" \/ sessionId = ""
       THEN /\ response' = Reply(400)
            /\ UNCHANGED <<guestPayments, guestBalances>>
       ELSE LET updated == updateGuestBalance(guestPayments, guestId, sessionId,
                             totalReceived, OrUSD(assetCode), OrTwo(assetScale),
                             FALSE)
            IN /\ InRange(updated.totalReceived)
               /\ guestPayments' = Put(guestPayments, Key(guestId, sessionId), updated)
               /\ guestBalances' = Put(guestBalances, Key(guestId, sessionId),
                                       updated.totalReceived)
               /\ response' = ReplyPayment(updated)
  /\ UNCHANGED <<sessions, questions, payments, issuedIds>>

\* POST /api/guest-payments/increment: additive update
IncrementPOST(guestId, sessionId, amountReceived, assetCode, assetScale) ==
  /\ request' = [op |-> "increment", guestId |-> guestId, sessionId |-> sessionId,
                 amountReceived |-> amountReceived,
                 assetCode |-> assetCode, assetScale |-> assetScale]
  /\ IF guestId = "" \/ sessionId = ""
       THEN /\ response' = Reply(400)
            /\ UNCHANGED <<guestPayments, guestBalances>>
       ELSE LET updated == updateGuestBalance(guestPayments, guestId, sessionId,
                             amountReceived, OrUSD(assetCode), OrTwo(assetScale),
                             TRUE)
            IN /\ InRange(updated.totalReceived)
               /\ guestPayments' = Put(guestPayments, Key(guestId, sessionId), updated)
               /\ guestBalances' = Put(guestBalances, Key(guestId, sessionId),
                                       updated.totalReceived)
               /\ response' = ReplyPayment(updated)
  /\ UNCHANGED <<sessions, questions, payments, issuedIds>>

\* Math.floor(parseFloat(value) * 10^assetScale), as verifyPaymentReceipt,
\* handleMonetization and the poll route compute it, of an amount whose decimal value
\* stands for `units` smallest units; parseFloat gives the double nearest
\* to units / 10^assetScale
receivedInSmallestUnit(units, assetScale) ==
  FloorConvert(units, assetScale, assetScale)

(***************************************************************************)
(* /api/guest-payments/poll                                                *)
(*                                                                         *)
(* A number of the route is a record [nan, value]: parseFloat of a value   *)
(* that is no number is NaN, and NaN stays NaN through Math.floor and      *)
(* Math.max and compares false with everything.                            *)
(***************************************************************************)
Number(value) == [nan |-> FALSE, value |-> value]

NaN == [nan |-> TRUE, value |-> 0]

\* Math.max(a, b)
MathMax(a, b) == IF a.nan \/ b.nan THEN NaN ELSE Number(Max(a.value, b.value))

\* a > b
GreaterThan(a, b) == ~a.nan /\ ~b.nan /\ a.value > b.value

\* incomingPaymentUrl.split("/incoming-payments/").length === 2
isIncomingPaymentUrl(url) == url # "elsewhere"

NoIncomingPayment == [found |-> FALSE, receivedAmount |-> NaN, assetScale |-> 0]

\* getIncomingPayment: null when the fetch fails or the response is not
\* ok; a body without receivedAmount reads as value "0" at scale 2
getIncomingPayment(paymentUrl) ==
  CASE wallet[paymentUrl].kind = "error" -> NoIncomingPayment
    [] wallet[paymentUrl].kind = "noAmount" ->
         [found |-> TRUE, receivedAmount |-> Number(0), assetScale |-> 2]
    [] wallet[paymentUrl].kind = "malformed" ->
         [found |-> TRUE, receivedAmount |-> NaN,
          assetScale |-> wallet[paymentUrl].assetScale]
    [] OTHER ->
         [found |-> TRUE,
          receivedAmount |->
            Number(receivedInSmallestUnit(network[paymentUrl],
                                          wallet[paymentUrl].assetScale)),
          assetScale |-> wallet[paymentUrl].assetScale]

\* the body of the route's loop for one URL: the running totalReceived
\* after it.  The conversion multiplies before it divides, which is exact.
pollUrl(totalReceived, incomingPaymentUrl, assetScale) ==
  IF ~isIncomingPaymentUrl(incomingPaymentUrl)
       \/ ~getIncomingPayment(incomingPaymentUrl).found
    THEN totalReceived
    ELSE LET incomingPayment == getIncomingPayment(incomingPaymentUrl)
             received == incomingPayment.receivedAmount
             convertedAmount ==
               IF received.nan
                 THEN NaN
                 ELSE IF assetScale = incomingPayment.assetScale
                        THEN received
                        ELSE Number((received.value * Pow10(assetScale))
                                      \div Pow10(incomingPayment.assetScale))
         IN MathMax(totalReceived, convertedAmount)

\* the route's loop over incomingPaymentUrls, starting from totalReceived
RECURSIVE pollUrls(_, _, _)
pollUrls(totalReceived, incomingPaymentUrls, assetScale) ==
  IF incomingPaymentUrls = <<>>
    THEN totalReceived
    ELSE pollUrls(pollUrl(totalReceived, Head(incomingPaymentUrls), assetScale),
                  Tail(incomingPaymentUrls), assetScale)

ReplyPoll(totalReceived, previousTotal) ==
  [Reply(200) EXCEPT !.totalReceived = totalReceived.value]
    @@ [nan |-> totalReceived.nan, previousTotal |-> previousTotal,
        updated |-> GreaterThan(totalReceived, Number(previousTotal))]

\* POST /api/guest-payments/poll
PollPOST(guestId, sessionId) ==
  /\ request' = [op |-> "poll", guestId |-> guestId, sessionId |-> sessionId]
  /\ IF guestId = "" \/ sessionId = ""
       THEN /\ response' = Reply(400)
            /\ UNCHANGED <<guestPayments, guestBalances>>
       ELSE IF \/ ~hasGuestPayment(guestPayments, guestId, sessionId)
               \/ getGuestPayment(guestPayments, guestId, sessionId)
                    .incomingPaymentUrls = <<>>
         THEN /\ response' = ReplyPoll(Number(0), 0)
              /\ UNCHANGED <<guestPayments, guestBalances>>
         ELSE LET guestPayment == getGuestPayment(guestPayments, guestId, sessionId)
                  totalReceived == pollUrls(Number(0), guestPayment.incomingPaymentUrls,
                                            guestPayment.assetScale)
                  previousTotal == guestPayment.totalReceived
                  updated == updateGuestBalance(guestPayments, guestId, sessionId,
                               totalReceived.value, guestPayment.assetCode,
                               guestPayment.assetScale, FALSE)
              IN /\ response' = ReplyPoll(totalReceived, previousTotal)
                 /\ IF GreaterThan(totalReceived, Number(previousTotal))
                      THEN /\ InRange(updated.totalReceived)
                           /\ guestPayments' =
                                Put(guestPayments, Key(guestId, sessionId), updated)
                           /\ guestBalances' =
                                Put(guestBalances, Key(guestId, sessionId),
                                    updated.totalReceived)
                      ELSE UNCHANGED <<guestPayments, guestBalances>>
  /\ UNCHANGED <<sessions, questions, payments, issuedIds>>

(***************************************************************************)
(* /api/questions                                                          *)
(***************************************************************************)
Statuses == {"pending_payment", "paid", "queued", "active", "answered", "skipped"}

hasQuestion(id) == id \in QuestionIds

\* updateQuestion(id, { status }): null (no write) when there is no such
\* question
updateQuestionStatus(id, status) ==
  IF hasQuestion(id)
    THEN [questions EXCEPT ![id] = [@ EXCEPT !.status = status]]
    ELSE questions

\* a credit check that refuses only a guest without balance
creditDeniedWithoutBalance(guestBalance) == ~guestBalance.found

\* the route's own credit check: no balance, or less than one credit
creditDenied(guestBalance) ==
  ~guestBalance.found \/ guestBalance.questionCredits < 1

\* POST /api/questions: the credit gate, then createQuestion (and
\* createPayment when the body carries payment info).  The id of the new
\* question (nanoid()) is its index in questions.
QuestionsPOST(body) ==
  /\ request' = [op |-> "createQuestion", guestId |-> body.guestId,
                 sessionId |-> body.sessionId,
                 submitterWalletAddress |-> body.submitterWalletAddress,
                 status |-> body.status, payment |-> body.payment]
  /\ LET gated == body.guestId # "" /\ body.sessionId # ""
                  /\ hasSession(body.sessionId)
         guestBalance == getGuestBalance(body.guestId, body.sessionId)
     IN IF gated /\ creditDenied(guestBalance)
          THEN /\ response' = Reply(402)
               /\ UNCHANGED <<questions, payments>>
          ELSE IF gated /\ deductGuestCredit(body.guestId, body.sessionId) = "throws"
          THEN /\ response' = Reply(500)
               /\ UNCHANGED <<questions, payments>>
          ELSE /\ Len(questions) < MaxQuestions
               /\ questions' = Append(questions,
                    [sessionId |-> body.sessionId,
                     submitterWalletAddress |->
                       IF body.submitterWalletAddress # ""
                         THEN body.submitterWalletAddress ELSE body.guestId,
                     guestId |-> body.guestId,
                     status |-> IF body.status # "" THEN body.status ELSE "paid",
                     upvotes |-> 0])
               /\ payments' = IF body.payment
                                THEN Put(payments, Len(questions) + 1, "pending")
                                ELSE payments
               /\ response' = Reply(201)
  /\ UNCHANGED <<sessions, guestPayments, guestBalances, issuedIds>>

(***************************************************************************)
(* POST /api/questions step by step: the handler gives way at every await, *)
(* so another request can run between its balance check, the re-check of   *)
(* deductGuestCredit and createQuestion.  inflight[p].seen is the          *)
(* questionCredits the check has read (guestBalance in the handler).       *)
(***************************************************************************)
RequestOf(body) ==
  [op |-> "createQuestion", guestId |-> body.guestId,
   sessionId |-> body.sessionId,
   submitterWalletAddress |-> body.submitterWalletAddress,
   status |-> body.status, payment |-> body.payment]

\* up to the route's own check: 402, or on to deductGuestCredit; a body
\* the gate does not apply to goes on to createQuestion
QuestionsPOSTCheck(p, body) ==
  /\ inflight[p].pc = "idle"
  /\ LET gated == body.guestId # "" /\ body.sessionId # ""
                  /\ hasSession(body.sessionId)
         guestBalance == getGuestBalance(body.guestId, body.sessionId)
     IN IF gated /\ creditDenied(guestBalance)
          THEN /\ request' = RequestOf(body)
               /\ response' = Reply(402)
               /\ UNCHANGED inflight
          ELSE /\ inflight' = [inflight EXCEPT ![p] =
                    [pc |-> IF gated THEN "checked" ELSE "deducted",
                     body |-> body,
                     seen |-> guestBalance.questionCredits]]
               /\ UNCHANGED <<request, response>>
  /\ UNCHANGED <<store, issuedIds>>

\* a deductGuestCredit step that takes the price of the question off the
\* stored total
QuestionsPOSTDeductStoring(p) ==
  /\ inflight[p].pc = "checked"
  /\ LET guestId == inflight[p].body.guestId
         sessionId == inflight[p].body.sessionId
         result == deductGuestCredit(guestId, sessionId)
     IN /\ IF result = "throws"
             THEN /\ request' = RequestOf(inflight[p].body)
                  /\ response' = Reply(500)
                  /\ inflight' = [inflight EXCEPT ![p] = [pc |-> "idle"]]
             ELSE /\ inflight' = [inflight EXCEPT ![p].pc = "deducted"]
                  /\ UNCHANGED <<request, response>>
        /\ guestPayments' =
             IF result = "ok"
               THEN Put(guestPayments, Key(guestId, sessionId),
                        [getGuestPayment(guestPayments, guestId, sessionId)
                           EXCEPT !.totalReceived =
                             @ - getSession(sessionId).questionPrice])
               ELSE guestPayments
  /\ UNCHANGED <<sessions, guestBalances, questions, payments, issuedIds>>

\* await deductGuestCredit: the re-check throws into the handler's catch
QuestionsPOSTDeduct(p) ==
  /\ inflight[p].pc = "checked"
  /\ IF deductGuestCredit(inflight[p].body.guestId, inflight[p].body.sessionId)
          = "throws"
       THEN /\ request' = RequestOf(inflight[p].body)
            /\ response' = Reply(500)
            /\ inflight' = [inflight EXCEPT ![p] = [pc |-> "idle"]]
       ELSE /\ inflight' = [inflight EXCEPT ![p].pc = "deducted"]
            /\ UNCHANGED <<request, response>>
  /\ UNCHANGED <<store, issuedIds>>

\* a createQuestion step that checks the credits once more
QuestionsPOSTCreateChecked(p) ==
  /\ inflight[p].pc = "deducted"
  /\ Len(questions) < MaxInFlight
  /\ request' = RequestOf(inflight[p].body)
  /\ inflight' = [inflight EXCEPT ![p] = [pc |-> "idle"]]
  /\ IF creditDenied(getGuestBalance(inflight[p].body.guestId,
                                     inflight[p].body.sessionId))
       THEN /\ response' = Reply(402)
            /\ UNCHANGED <<questions, payments>>
       ELSE /\ questions' = Append(questions,
                 [sessionId |-> inflight[p].body.sessionId,
                  submitterWalletAddress |-> inflight[p].body.guestId,
                  guestId |-> inflight[p].body.guestId,
                  status |-> "paid", upvotes |-> 0])
            /\ response' = Reply(201)
            /\ UNCHANGED payments
  /\ UNCHANGED <<sessions, guestPayments, guestBalances, issuedIds>>

\* await createQuestion (and createPayment), then 201
QuestionsPOSTCreate(p) ==
  /\ inflight[p].pc = "deducted"
  /\ Len(questions) < MaxInFlight
  /\ LET body == inflight[p].body
     IN /\ request' = RequestOf(body)
        /\ questions' = Append(questions,
             [sessionId |-> body.sessionId,
              submitterWalletAddress |->
                IF body.submitterWalletAddress # ""
                  THEN body.submitterWalletAddress ELSE body.guestId,
              guestId |-> body.guestId,
              status |-> IF body.status # "" THEN body.status ELSE "paid",
              upvotes |-> 0])
        /\ payments' = IF body.payment
                         THEN Put(payments, Len(questions) + 1, "pending")
                         ELSE payments
        /\ response' = Reply(201)
  /\ inflight' = [inflight EXCEPT ![p] = [pc |-> "idle"]]
  /\ UNCHANGED <<sessions, guestPayments, guestBalances, issuedIds>>

\* PATCH /api/questions: id 0 is a body without id; action "" is the
\* regular update, whose body sets status
QuestionsPATCH(id, action, status) ==
  /\ request' = [op |-> "patchQuestion", id |-> id, action |-> action,
                 status |-> status]
  /\ IF id = 0
       THEN /\ response' = Reply(400)
            /\ UNCHANGED <<questions, payments>>
       ELSE IF action = "answer"
       THEN /\ questions' = updateQuestionStatus(id, "active")
            /\ response' = Reply(200)
            /\ UNCHANGED payments
       ELSE IF action = "complete"
       THEN /\ questions' = updateQuestionStatus(id, "answered")
            /\ response' = Reply(200)
            /\ UNCHANGED payments
       ELSE IF action = "skip"
       THEN /\ questions' = updateQuestionStatus(id, "skipped")
            /\ response' = Reply(200)
            /\ UNCHANGED payments
       ELSE IF ~hasQuestion(id)
       THEN /\ response' = Reply(404)
            /\ UNCHANGED <<questions, payments>>
       ELSE IF action = "upvote"
       THEN /\ questions[id].upvotes < MaxUpvotes
            /\ questions' = [questions EXCEPT ![id] =
                               [@ EXCEPT !.upvotes = @ + 1]]
            /\ response' = Reply(200)
            /\ UNCHANGED payments
       ELSE IF action = "markPaid"
       THEN /\ questions' = updateQuestionStatus(id, "paid")
            /\ payments' = IF id \in DOMAIN payments
                             THEN [payments EXCEPT ![id] = "completed"]
                             ELSE payments
            /\ response' = Reply(200)
       ELSE /\ questions' = updateQuestionStatus(id, status)
            /\ response' = Reply(200)
            /\ UNCHANGED payments
  /\ UNCHANGED <<sessions, guestPayments, guestBalances, issuedIds>>

(***************************************************************************)
(* updateGuestBalance step by step, as the ratchet and the increment route *)
(* run it against the Redis store: getGuestPayment returns a copy of the   *)
(* stored record, createOrUpdateGuestPayment writes the initial record of  *)
(* a guest that has none, and the computed record is written back by       *)
(* redis.set.  inflight[p].guestPayment is the copy the request holds.     *)
(***************************************************************************)
UpdateRequest(op, guestId, sessionId, amount, assetCode, assetScale) ==
  IF op = "ratchet"
    THEN [op |-> "ratchet", guestId |-> guestId, sessionId |-> sessionId,
          totalReceived |-> amount,
          assetCode |-> assetCode, assetScale |-> assetScale]
    ELSE [op |-> "increment", guestId |-> guestId, sessionId |-> sessionId,
          amountReceived |-> amount,
          assetCode |-> assetCode, assetScale |-> assetScale]

\* the route up to await getGuestPayment of updateGuestBalance
updateGuestBalanceRead(p, op, guestId, sessionId, amount, assetCode, assetScale) ==
  /\ inflight[p].pc = "idle"
  /\ IF guestId = "" \/ sessionId = ""
       THEN /\ request' = UpdateRequest(op, guestId, sessionId, amount,
                                        assetCode, assetScale)
            /\ response' = Reply(400)
            /\ UNCHANGED inflight
       ELSE /\ inflight' = [inflight EXCEPT ![p] =
                 [pc |-> IF hasGuestPayment(guestPayments, guestId, sessionId)
                           THEN "loaded" ELSE "creating",
                  op |-> op, guestId |-> guestId, sessionId |-> sessionId,
                  amount |-> amount,
                  assetCode |-> assetCode, assetScale |-> assetScale,
                  guestPayment |->
                    IF hasGuestPayment(guestPayments, guestId, sessionId)
                      THEN getGuestPayment(guestPayments, guestId, sessionId)
                      ELSE [incomingPaymentUrls |-> <<>>, totalReceived |-> 0,
                            assetCode |-> "", assetScale |-> 0]]]
            /\ UNCHANGED <<request, response>>
  /\ UNCHANGED <<store, issuedIds>>

\* await createOrUpdateGuestPayment: the record that is stored by now, or
\* a new one with total 0, which is written
updateGuestBalanceCreate(p) ==
  /\ inflight[p].pc = "creating"
  /\ LET created ==
           createOrUpdateGuestPayment(guestPayments, inflight[p].guestId,
             inflight[p].sessionId,
             sessionCurrencyOf(inflight[p].sessionId, OrUSD(inflight[p].assetCode)),
             sessionScaleOf(inflight[p].sessionId, OrTwo(inflight[p].assetScale)))
     IN /\ guestPayments' = created
        /\ inflight' = [inflight EXCEPT
             ![p].pc = "loaded",
             ![p].guestPayment =
               getGuestPayment(created, inflight[p].guestId, inflight[p].sessionId)]
  /\ UNCHANGED <<sessions, guestBalances, questions, payments, issuedIds,
                 request, response>>

\* a write that reads the stored record again
updateGuestBalanceWriteFresh(p) ==
  /\ inflight[p].pc = "loaded"
  /\ LET updated ==
           updateGuestBalance(guestPayments,
             inflight[p].guestId, inflight[p].sessionId, inflight[p].amount,
             OrUSD(inflight[p].assetCode), OrTwo(inflight[p].assetScale),
             inflight[p].op = "increment")
     IN /\ InRange(updated.totalReceived)
        /\ guestPayments' = Put(guestPayments,
             Key(inflight[p].guestId, inflight[p].sessionId), updated)
        /\ guestBalances' = Put(guestBalances,
             Key(inflight[p].guestId, inflight[p].sessionId), updated.totalReceived)
        /\ inflight' = [inflight EXCEPT ![p].pc = "written",
                                        ![p].guestPayment = updated]
  /\ UNCHANGED <<sessions, questions, payments, issuedIds, request, response>>

\* the update computed on the copy, then redis.set of the record and of
\* the balance
updateGuestBalanceWrite(p) ==
  /\ inflight[p].pc = "loaded"
  /\ LET updated ==
           updateGuestBalance(
             Put(guestPayments, Key(inflight[p].guestId, inflight[p].sessionId),
                 inflight[p].guestPayment),
             inflight[p].guestId, inflight[p].sessionId, inflight[p].amount,
             OrUSD(inflight[p].assetCode), OrTwo(inflight[p].assetScale),
             inflight[p].op = "increment")
     IN /\ InRange(updated.totalReceived)
        /\ guestPayments' = Put(guestPayments,
             Key(inflight[p].guestId, inflight[p].sessionId), updated)
        /\ guestBalances' = Put(guestBalances,
             Key(inflight[p].guestId, inflight[p].sessionId), updated.totalReceived)
        /\ inflight' = [inflight EXCEPT ![p].pc = "written",
                                        ![p].guestPayment = updated]
  /\ UNCHANGED <<sessions, questions, payments, issuedIds, request, response>>

\* the route answers with the record updateGuestBalance returned
updateGuestBalanceRespond(p) ==
  /\ inflight[p].pc = "written"
  /\ request' = UpdateRequest(inflight[p].op, inflight[p].guestId,
                              inflight[p].sessionId, inflight[p].amount,
                              inflight[p].assetCode, inflight[p].assetScale)
  /\ response' = ReplyPayment(inflight[p].guestPayment)
  /\ inflight' = [inflight EXCEPT ![p] = [pc |-> "idle"]]
  /\ UNCHANGED <<store, issuedIds>>

(***************************************************************************)
(* The viewer page (question-form.tsx) of guest g1 in session s1.  Its     *)
(* fetches are the route handlers above.                                   *)
(***************************************************************************)
\* a handler that registers and verifies every URL of a monetization event
handleMonetizationUnseen(url) ==
  /\ page.verifying[url] < MaxVerifying
  /\ GuestPaymentsPOST("g1", "s1", url, getSession("s1").assetCode,
                       getSession("s1").assetScale)
  /\ page' = [incomingPaymentUrls |-> page.incomingPaymentUrls \cup {url},
              verifying |-> [page.verifying EXCEPT ![url] =
                               IF response'.status = 200 THEN @ + 1 ELSE @]]

\* handleMonetization for an event that carries incomingPayment = url: a
\* URL the page has not seen is added to its set and registered, and when
\* the registration is answered ok, verifyPaymentReceipt is called
handleMonetization(url) ==
  /\ url \notin page.incomingPaymentUrls
  /\ page.verifying[url] < MaxVerifying
  /\ GuestPaymentsPOST("g1", "s1", url, getSession("s1").assetCode,
                       getSession("s1").assetScale)
  /\ page' = [incomingPaymentUrls |-> page.incomingPaymentUrls \cup {url},
              verifying |-> [page.verifying EXCEPT ![url] =
                               IF response'.status = 200 THEN @ + 1 ELSE @]]

\* verifyPaymentReceipt(url): the page fetches the URL itself and sends a
\* positive received amount as a ratchet update
verifyPaymentReceipt(url) ==
  /\ page.verifying[url] > 0
  /\ page' = [page EXCEPT !.verifying[url] = @ - 1]
  /\ IF wallet[url].kind = "ok" /\ network[url] > 0
       THEN GuestPaymentsPATCH("g1", "s1",
              receivedInSmallestUnit(network[url], wallet[url].assetScale),
              "USD", wallet[url].assetScale)
       ELSE UNCHANGED <<store, issuedIds, request, response>>

\* the component is mounted again: its state starts from useState(new
\* Set()), the guestId comes from sessionStorage
remount ==
  /\ page.incomingPaymentUrls # {}
  /\ page' = [page EXCEPT !.incomingPaymentUrls = {}]
  /\ UNCHANGED <<store, issuedIds, request, response>>

\* pollPayments, every 5 seconds: nothing without a URL
pollPayments ==
  /\ page.incomingPaymentUrls # {}
  /\ PollPOST("g1", "s1")
  /\ UNCHANGED page

\* canSubmit of the form, name and question filled in and the wallet
\* connected
canSubmit(session, questionCredits) ==
  session.status = "live" /\ questionCredits >= 1

\* handleSubmit: the form of guest g1 posts the question when canSubmit
\* holds of the session and balance the page shows
handleSubmit ==
  /\ hasSession("s1")
  /\ canSubmit(getSession("s1"), getGuestBalance("g1", "s1").questionCredits)
  /\ QuestionsPOST([guestId |-> "g1", sessionId |-> "s1",
                    submitterWalletAddress |-> "g1", status |-> "paid",
                    payment |-> FALSE])
  /\ UNCHANGED page

(***************************************************************************)
(* The viewer counters (/api/viewers).  INCR and DECR are single commands  *)
(* of the store; a leave that finds the counter below 0 sets it to 0 with  *)
(* a second command.                                                       *)
(***************************************************************************)
getViewerCount(sessionId) == viewerCounts[sessionId]

ReplyViewers(count) == Reply(200) @@ [viewerCount |-> count]

\* GET /api/viewers
ViewersGET(sessionId) ==
  /\ request' = [op |-> "getViewers", sessionId |-> sessionId]
  /\ response' = ReplyViewers(getViewerCount(sessionId))
  /\ UNCHANGED <<store, issuedIds, viewerCounts>>

\* POST /api/viewers, action join: incrementViewerCount
ViewersPOSTJoin(sessionId) ==
  /\ viewerCounts[sessionId] < MaxViewers
  /\ request' = [op |-> "joinViewers", sessionId |-> sessionId]
  /\ viewerCounts' = [viewerCounts EXCEPT ![sessionId] = @ + 1]
  /\ response' = ReplyViewers(viewerCounts'[sessionId])
  /\ UNCHANGED <<store, issuedIds>>

\* POST /api/viewers, action leave: the DECR of decrementViewerCount, and
\* the answer when the counter has not gone below 0
ViewersPOSTLeaveDecr(p, sessionId) ==
  /\ inflight[p].pc = "idle"
  /\ viewerCounts' = [viewerCounts EXCEPT ![sessionId] = @ - 1]
  /\ IF viewerCounts'[sessionId] < 0
       THEN /\ inflight' = [inflight EXCEPT ![p] =
                   [pc |-> "resetting", sessionId |-> sessionId]]
            /\ UNCHANGED <<request, response>>
       ELSE /\ request' = [op |-> "leaveViewers", sessionId |-> sessionId]
            /\ response' = ReplyViewers(viewerCounts'[sessionId])
            /\ UNCHANGED inflight
  /\ UNCHANGED <<store, issuedIds>>

\* the SET 0 of decrementViewerCount, and the answer
ViewersPOSTLeaveReset(p) ==
  /\ inflight[p].pc = "resetting"
  /\ viewerCounts' = [viewerCounts EXCEPT ![inflight[p].sessionId] = 0]
  /\ request' = [op |-> "leaveViewers", sessionId |-> inflight[p].sessionId]
  /\ response' = ReplyViewers(0)
  /\ inflight' = [inflight EXCEPT ![p] = [pc |-> "idle"]]
  /\ UNCHANGED <<store, issuedIds>>

(***************************************************************************)
(* PATCH /api/questions with action upvote, step by step: the route reads  *)
(* the question, updateQuestion reads it again and writes it with the      *)
(* upvotes the route computed.                                             *)
(***************************************************************************)
\* await getQuestion(id): 404, or the upvotes the route has read
QuestionsPATCHUpvoteRead(p, id) ==
  /\ inflight[p].pc = "idle"
  /\ id # 0
  /\ IF ~hasQuestion(id)
       THEN /\ request' = [op |-> "patchQuestion", id |-> id, action |-> "upvote",
                           status |-> ""]
            /\ response' = Reply(404)
            /\ UNCHANGED inflight
       ELSE /\ inflight' = [inflight EXCEPT ![p] =
                   [pc |-> "upvoting", id |-> id, upvotes |-> questions[id].upvotes]]
            /\ UNCHANGED <<request, response>>
  /\ UNCHANGED <<store, issuedIds>>

\* await updateQuestion(id, {upvotes: question.upvotes + 1})
QuestionsPATCHUpvoteWrite(p) ==
  /\ inflight[p].pc = "upvoting"
  /\ inflight[p].upvotes < MaxUpvotes
  /\ questions' = [questions EXCEPT ![inflight[p].id] =
                     [@ EXCEPT !.upvotes = inflight[p].upvotes + 1]]
  /\ request' = [op |-> "patchQuestion", id |-> inflight[p].id,
                 action |-> "upvote", status |-> ""]
  /\ response' = Reply(200)
  /\ inflight' = [inflight EXCEPT ![p] = [pc |-> "idle"]]
  /\ UNCHANGED <<sessions, guestPayments, guestBalances, payments, issuedIds>>

(***************************************************************************)
(* Co-host invitations (PATCH /api/sessions/[id], generateInvite and       *)
(* claimInvite).  A token is a nanoid; issuedIds keeps the ones handed     *)
(* out, no id is issued twice.                                             *)
(***************************************************************************)
HostNumbers == {2, 3, 4}
Tokens == {"t1", "t2", "t3"}

\* findIndex, counted from 1: the index of the first token of the list
\* with the host number (or with the token value), 0 for none
IndexOfHost(coHostTokens, hostNumber) ==
  LET found == {i \in DOMAIN coHostTokens : coHostTokens[i].hostNumber = hostNumber}
  IN IF found = {} THEN 0 ELSE CHOOSE i \in found : \A j \in found : i <= j

IndexOfToken(coHostTokens, tokenValue) ==
  LET found == {i \in DOMAIN coHostTokens : coHostTokens[i].token = tokenValue}
  IN IF found = {} THEN 0 ELSE CHOOSE i \in found : \A j \in found : i <= j

\* the list addCoHostToken builds from the tokens it has read
addCoHostToken(existingTokens, token) ==
  IF IndexOfHost(existingTokens, token.hostNumber) > 0
    THEN [existingTokens EXCEPT ![IndexOfHost(existingTokens, token.hostNumber)] = token]
    ELSE Append(existingTokens, token)

ReplyInvite(tokenValue, hostNumber) ==
  Reply(200) @@ [token |-> tokenValue, hostNumber |-> hostNumber]

InviteRequest(id, hostNumber) ==
  [op |-> "generateInvite", id |-> id, hostNumber |-> hostNumber]

\* generateInvite up to the new token: 400, 404, the token the host number
\* has already, or a new token to add
generateInviteRead(p, id, hostNumber) ==
  /\ inflight[p].pc = "idle"
  /\ IF hostNumber \notin HostNumbers
       THEN /\ request' = InviteRequest(id, hostNumber)
            /\ response' = Reply(400)
            /\ UNCHANGED <<inflight, issuedIds>>
       ELSE IF ~hasSession(id)
       THEN /\ request' = InviteRequest(id, hostNumber)
            /\ response' = Reply(404)
            /\ UNCHANGED <<inflight, issuedIds>>
       ELSE IF IndexOfHost(getSession(id).coHostTokens, hostNumber) > 0
       THEN /\ request' = InviteRequest(id, hostNumber)
            /\ response' =
                 ReplyInvite(getSession(id).coHostTokens[
                               IndexOfHost(getSession(id).coHostTokens, hostNumber)].token,
                             hostNumber)
            /\ UNCHANGED <<inflight, issuedIds>>
       ELSE \E tokenValue \in Tokens \ issuedIds :
              /\ issuedIds' = issuedIds \cup {tokenValue}
              /\ inflight' = [inflight EXCEPT ![p] =
                    [pc |-> "adding", id |-> id,
                     token |-> [hostNumber |-> hostNumber, token |-> tokenValue,
                                claimed |-> FALSE]]]
              /\ UNCHANGED <<request, response>>
  /\ UNCHANGED store

\* addCoHostToken: await getSession, and the list with the new token
generateInviteLoad(p) ==
  /\ inflight[p].pc = "adding"
  /\ hasSession(inflight[p].id)
  /\ inflight' = [inflight EXCEPT ![p] =
        [pc |-> "storing", id |-> inflight[p].id, token |-> inflight[p].token,
         coHostTokens |-> addCoHostToken(getSession(inflight[p].id).coHostTokens,
                                         inflight[p].token)]]
  /\ UNCHANGED <<store, issuedIds, request, response>>

\* updateSession(id, {coHostTokens}): the session as stored now with the
\* list addCoHostToken has built, and the route's answer
generateInviteStore(p) ==
  /\ inflight[p].pc = "storing"
  /\ hasSession(inflight[p].id)
  /\ sessions' = [sessions EXCEPT ![inflight[p].id].coHostTokens =
                    inflight[p].coHostTokens]
  /\ request' = InviteRequest(inflight[p].id, inflight[p].token.hostNumber)
  /\ response' = ReplyInvite(inflight[p].token.token, inflight[p].token.hostNumber)
  /\ inflight' = [inflight EXCEPT ![p] = [pc |-> "idle"]]
  /\ UNCHANGED <<guestPayments, guestBalances, questions, payments, issuedIds>>

ClaimRequest(id, tokenValue) == [op |-> "claimInvite", id |-> id, token |-> tokenValue]

\* claimCoHostToken up to its write: null (answered 400), the host number
\* of a token that is claimed already, or the list with the token marked
claimCoHostTokenRead(p, id, tokenValue) ==
  /\ inflight[p].pc = "idle"
  /\ IF ~hasSession(id) \/ IndexOfToken(getSession(id).coHostTokens, tokenValue) = 0
       THEN /\ request' = ClaimRequest(id, tokenValue)
            /\ response' = Reply(400)
            /\ UNCHANGED inflight
       ELSE LET tokenIndex == IndexOfToken(getSession(id).coHostTokens, tokenValue)
                token == getSession(id).coHostTokens[tokenIndex]
            IN IF token.claimed
                 THEN /\ request' = ClaimRequest(id, tokenValue)
                      /\ response' = ReplyInvite(tokenValue, token.hostNumber)
                      /\ UNCHANGED inflight
                 ELSE /\ inflight' = [inflight EXCEPT ![p] =
                             [pc |-> "claiming", id |-> id, token |-> token,
                              coHostTokens |->
                                [getSession(id).coHostTokens
                                   EXCEPT ![tokenIndex].claimed = TRUE]]]
                      /\ UNCHANGED <<request, response>>
  /\ UNCHANGED <<store, issuedIds>>

\* updateSession(sessionId, {coHostTokens: updatedTokens}), and the answer
claimCoHostTokenWrite(p) ==
  /\ inflight[p].pc = "claiming"
  /\ IF hasSession(inflight[p].id)
       THEN sessions' = [sessions EXCEPT ![inflight[p].id].coHostTokens =
                           inflight[p].coHostTokens]
       ELSE UNCHANGED sessions
  /\ request' = ClaimRequest(inflight[p].id, inflight[p].token.token)
  /\ response' = ReplyInvite(inflight[p].token.token, inflight[p].token.hostNumber)
  /\ inflight' = [inflight EXCEPT ![p] = [pc |-> "idle"]]
  /\ UNCHANGED <<guestPayments, guestBalances, questions, payments, issuedIds>>

(***************************************************************************)
(* Spec: the balance reconciler of one guest.  Sessions are created,       *)
(* patched and deleted, URLs registered, totals ratcheted and incremented, *)
(* balances read.                                                          *)
(***************************************************************************)
Amounts == {0, 29, 100}
Deltas == {-50, 50}
PatchPrices == {0} \cup Prices
LedgerGuests == {"", "g1"}
LedgerUrls == {"u1"}

CreateSession ==
  /\ \E id \in SessionIds, p \in PatchPrices, c \in AssetCodes, sc \in AssetScales :
       SessionsPOST(id, p, c, sc)
  /\ UNCHANGED environment

PatchSession ==
  /\ \E id \in issuedIds, p \in Prices, c \in AssetCodes, sc \in AssetScales :
       SessionPATCH(id, p, c, sc)
  /\ UNCHANGED environment

DeleteSession ==
  /\ \E id \in issuedIds : SessionDELETE(id)
  /\ UNCHANGED environment

RegisterUrl ==
  /\ \E g \in LedgerGuests, s \in issuedIds, u \in LedgerUrls,
        c \in AssetCodes, sc \in AssetScales :
       GuestPaymentsPOST(g, s, u, c, sc)
  /\ UNCHANGED environment

ReadBalance ==
  /\ \E g \in LedgerGuests, s \in issuedIds : GuestPaymentsGET(g, s)
  /\ UNCHANGED environment

Ratchet ==
  /\ \E g \in LedgerGuests, s \in issuedIds, a \in Amounts,
        c \in AssetCodes, sc \in AssetScales :
       GuestPaymentsPATCH(g, s, a, c, sc)
  /\ UNCHANGED environment

Increment ==
  /\ \E g \in LedgerGuests, s \in issuedIds, d \in Deltas,
        c \in AssetCodes, sc \in AssetScales :
       IncrementPOST(g, s, d, c, sc)
  /\ UNCHANGED environment

Next ==
  \/ CreateSession
  \/ PatchSession
  \/ DeleteSession
  \/ RegisterUrl
  \/ ReadBalance
  \/ Ratchet
  \/ Increment

Spec == Init /\ [][Next]_vars

(***************************************************************************)
(* SpecGate: the credit gate.  A session with price 50 exists; two guests  *)
(* receive money, read balances and submit questions, the host patches     *)
(* questions and the session.                                              *)
(***************************************************************************)
GateInit ==
  /\ sessions = [id \in SessionIds |->
                   [questionPrice |-> 50, assetCode |-> "USD", assetScale |-> 2,
                    status |-> "draft", coHostTokens |-> <<>>]]
  /\ issuedIds = SessionIds
  /\ guestPayments = <<>>
  /\ guestBalances = <<>>
  /\ questions = <<>>
  /\ payments = <<>>
  /\ request = [op |-> "createSession", questionPrice |-> 50]
  /\ response = Reply(201)
  /\ network = [u \in Urls |-> 0]
  /\ streamed = 0
  /\ wallet = AnsweringWallet
  /\ inflight = NoneInFlight
  /\ page = MountedPage
  /\ viewerCounts = NoViewers

GateAmounts == {100}
GateDeltas == {25}
GatePayers == {"g1"}

\* a guest's submission; one that names another guest as submitter; one
\* that asks for status pending_payment; a pay-per-question submission of a
\* wallet, without guestId; a submission without guestId that names g1
QuestionBodies ==
  {[guestId |-> "g1", sessionId |-> "s1", submitterWalletAddress |-> "",
    status |-> "", payment |-> FALSE],
   [guestId |-> "g1", sessionId |-> "s1", submitterWalletAddress |-> "g2",
    status |-> "", payment |-> FALSE],
   [guestId |-> "g1", sessionId |-> "s1", submitterWalletAddress |-> "",
    status |-> "pending_payment", payment |-> FALSE],
   [guestId |-> "", sessionId |-> "s1", submitterWalletAddress |-> "g2",
    status |-> "pending_payment", payment |-> TRUE],
   [guestId |-> "", sessionId |-> "s1", submitterWalletAddress |-> "g1",
    status |-> "", payment |-> FALSE]}

QuestionActions == {"answer", "complete", "skip", "upvote", "markPaid", ""}

GateRatchet ==
  /\ \E g \in GatePayers, s \in issuedIds, a \in GateAmounts :
       GuestPaymentsPATCH(g, s, a, "USD", 2)
  /\ UNCHANGED environment

GateIncrement ==
  /\ \E g \in GatePayers, s \in issuedIds, d \in GateDeltas :
       IncrementPOST(g, s, d, "USD", 2)
  /\ UNCHANGED environment

GateReadBalance ==
  /\ \E g \in GuestIds, s \in issuedIds : GuestPaymentsGET(g, s)
  /\ UNCHANGED environment

SubmitQuestion ==
  /\ \E body \in QuestionBodies : QuestionsPOST(body)
  /\ UNCHANGED environment

PatchQuestion ==
  /\ \E id \in 0..MaxQuestions, action \in QuestionActions :
       QuestionsPATCH(id, action, "pending_payment")
  /\ UNCHANGED environment

GateNext ==
  \/ DeleteSession
  \/ GateRatchet
  \/ GateIncrement
  \/ GateReadBalance
  \/ SubmitQuestion
  \/ PatchQuestion

SpecGate == GateInit /\ [][GateNext]_vars

(***************************************************************************)
(* SpecBalance: getGuestBalance as a function of the store.  The initial   *)
(* states are stores with one session (or none), one record of g1 (or      *)
(* none) in any currency, and up to MaxUsed questions; the only action     *)
(* reads a balance.                                                        *)
(***************************************************************************)
BalancePrices == {0, 30, 50}
BalanceTotals == {-50, 0, 29, 49, 50, 100, 125, 150}

\* a paid and a pending question of g1, and an answered one of a guest
\* request that names g2 as submitter
BalanceQuestions ==
  {[sessionId |-> "s1", submitterWalletAddress |-> "g1", guestId |-> "g1",
    status |-> "paid", upvotes |-> 0],
   [sessionId |-> "s1", submitterWalletAddress |-> "g1", guestId |-> "g1",
    status |-> "pending_payment", upvotes |-> 0],
   [sessionId |-> "s1", submitterWalletAddress |-> "g2", guestId |-> "g1",
    status |-> "answered", upvotes |-> 0]}

BalanceInit ==
  /\ sessions \in {<<>>} \cup
       {[id \in SessionIds |->
           [questionPrice |-> p, assetCode |-> c, assetScale |-> sc,
            status |-> "draft", coHostTokens |-> <<>>]] :
          p \in BalancePrices, c \in AssetCodes, sc \in AssetScales}
  /\ issuedIds = SessionIds
  /\ guestPayments \in {<<>>} \cup
       {[k \in {Key("g1", "s1")} |->
           [incomingPaymentUrls |-> <<>>, totalReceived |-> t,
            assetCode |-> c, assetScale |-> sc]] :
          t \in BalanceTotals, c \in AssetCodes, sc \in AssetScales}
  /\ guestBalances = [k \in DOMAIN guestPayments |-> guestPayments[k].totalReceived]
  /\ questions \in UNION {[1..n -> BalanceQuestions] : n \in 0..MaxUsed}
  /\ payments = <<>>
  /\ request = [op |-> ""]
  /\ response = Reply(0)
  /\ network = [u \in Urls |-> 0]
  /\ streamed = 0
  /\ wallet = AnsweringWallet
  /\ inflight = NoneInFlight
  /\ page = MountedPage
  /\ viewerCounts = NoViewers

BalanceRead ==
  /\ \E g \in {""} \cup GuestIds, s \in SessionIds : GuestPaymentsGET(g, s)
  /\ UNCHANGED environment

BalanceNext == BalanceRead

SpecBalance == BalanceInit /\ [][BalanceNext]_vars

(***************************************************************************)
(* SpecDualReport: one payment seen by both update paths, as the viewer    *)
(* page drives them.  Money arrives on the incoming payment u1 of guest    *)
(* g1; each monetization event reports an amount once, as an increment;    *)
(* verifyPaymentReceipt reports the amount received so far, as a ratchet.  *)
(***************************************************************************)
StreamDeltas == {25, 50}

\* the wallet receives d more on u1
PaymentArrives ==
  /\ \E d \in StreamDeltas :
       /\ network["u1"] + d <= MaxTotal
       /\ network' = [network EXCEPT !["u1"] = @ + d]
  /\ UNCHANGED <<store, issuedIds, request, response, streamed, wallet, inflight,
                 page, viewerCounts>>

\* handleMonetization, amountSent: an amount received and not yet reported
\* is posted as an increment in the session's currency
StreamIncrement ==
  /\ \E d \in StreamDeltas :
       /\ streamed + d <= network["u1"]
       /\ IncrementPOST("g1", "s1",
              receivedInSmallestUnit(d, getSession("s1").assetScale),
              getSession("s1").assetCode, getSession("s1").assetScale)
       /\ streamed' = streamed + d
  /\ UNCHANGED <<network, wallet, inflight, page, viewerCounts>>

\* handleMonetization, incomingPayment: the URL is registered
RegisterStreamUrl ==
  /\ GuestPaymentsPOST("g1", "s1", "u1", getSession("s1").assetCode,
                       getSession("s1").assetScale)
  /\ UNCHANGED environment

\* verifyPaymentReceipt: after the registration, the received amount of
\* the URL, if positive, is sent as a ratchet update
VerifyReceipt ==
  /\ hasGuestPayment(guestPayments, "g1", "s1")
  /\ Includes(getGuestPayment(guestPayments, "g1", "s1").incomingPaymentUrls, "u1")
  /\ network["u1"] > 0
  /\ GuestPaymentsPATCH("g1", "s1",
         receivedInSmallestUnit(network["u1"], getSession("s1").assetScale),
         getSession("s1").assetCode, getSession("s1").assetScale)
  /\ UNCHANGED environment

DualReadBalance ==
  /\ GuestPaymentsGET("g1", "s1")
  /\ UNCHANGED environment

DualNext ==
  \/ PaymentArrives
  \/ StreamIncrement
  \/ RegisterStreamUrl
  \/ VerifyReceipt
  \/ DualReadBalance

SpecDualReport == GateInit /\ [][DualNext]_vars

(***************************************************************************)
(* SpecPoll: guest g1 of session s1 registers payment URLs, the wallet     *)
(* receives money on them and answers or fails, and the page polls.        *)
(***************************************************************************)
PollAmounts == {1, 20, 29, 30}
PolledUrls == {"u1", "u2"}
WalletKinds == {"ok", "error", "noAmount", "malformed"}
PollGuests == {"", "g1"}

PollRegisterUrl ==
  /\ \E u \in Urls : GuestPaymentsPOST("g1", "s1", u, "USD", 2)
  /\ UNCHANGED environment

\* the amount received on a URL grows
WalletReceives ==
  /\ \E u \in PolledUrls, amount \in PollAmounts :
       /\ amount > network[u]
       /\ network' = [network EXCEPT ![u] = amount]
  /\ UNCHANGED <<store, issuedIds, request, response, streamed, wallet, inflight,
                 page, viewerCounts>>

\* the resource server of u1 starts to answer in another way; the one of
\* u2 may also hold its amounts at scale 0
WalletAnswers ==
  /\ \E u \in PolledUrls, kind \in WalletKinds, scale \in AssetScales :
       /\ u = "u1" => scale = 2
       /\ wallet' = [wallet EXCEPT ![u] = [kind |-> kind, assetScale |-> scale]]
  /\ UNCHANGED <<store, issuedIds, request, response, network, streamed, inflight,
                 page, viewerCounts>>

Poll ==
  /\ \E g \in PollGuests : PollPOST(g, "s1")
  /\ UNCHANGED environment

PollNext ==
  \/ PollRegisterUrl
  \/ WalletReceives
  \/ WalletAnswers
  \/ Poll

SpecPoll == GateInit /\ [][PollNext]_vars

(***************************************************************************)
(* SpecRace: submissions of guest g1 in session s1 that interleave, with   *)
(* ratchet updates and balance reads between their steps.                  *)
(***************************************************************************)
RaceAmounts == {50, 100}
RaceBodies ==
  {[guestId |-> g, sessionId |-> "s1", submitterWalletAddress |-> "",
    status |-> "", payment |-> FALSE] : g \in {"", "g1"}}

RaceRatchet ==
  /\ \E a \in RaceAmounts : GuestPaymentsPATCH("g1", "s1", a, "USD", 2)
  /\ UNCHANGED environment

RaceReadBalance ==
  /\ GuestPaymentsGET("g1", "s1")
  /\ UNCHANGED environment

BeginSubmission ==
  /\ \E p \in Submissions, body \in RaceBodies : QuestionsPOSTCheck(p, body)
  /\ UNCHANGED <<network, streamed, wallet, page, viewerCounts>>

DeductCredit ==
  /\ \E p \in Submissions : QuestionsPOSTDeduct(p)
  /\ UNCHANGED <<network, streamed, wallet, page, viewerCounts>>

PersistQuestion ==
  /\ \E p \in Submissions : QuestionsPOSTCreate(p)
  /\ UNCHANGED <<network, streamed, wallet, page, viewerCounts>>

RaceNext ==
  \/ RaceRatchet
  \/ RaceReadBalance
  \/ BeginSubmission
  \/ DeductCredit
  \/ PersistQuestion

SpecRace == GateInit /\ [][RaceNext]_vars

(***************************************************************************)
(* SpecGateRace: the interleaved submissions of SpecRace while the host    *)
(* may delete the session.                                                 *)
(***************************************************************************)
GateRaceNext ==
  \/ RaceRatchet
  \/ RaceReadBalance
  \/ BeginSubmission
  \/ DeductCredit
  \/ PersistQuestion
  \/ DeleteSession

SpecGateRace == GateInit /\ [][GateRaceNext]_vars

(***************************************************************************)
(* SpecScope: registrations, updates and polls of several (guest, session) *)
(* pairs.  Guest and session ids are the strings of the request; only s1   *)
(* is a session.                                                           *)
(***************************************************************************)
ScopedGuests == {"g1", "g1:x"}
ScopedSessions == {"s1", "x:s1"}
ScopedAmounts == {50}

ScopedRegister ==
  /\ \E g \in ScopedGuests, s \in ScopedSessions :
       GuestPaymentsPOST(g, s, "u1", "USD", 2)
  /\ UNCHANGED environment

ScopedRatchet ==
  /\ \E g \in ScopedGuests, s \in ScopedSessions, a \in ScopedAmounts :
       GuestPaymentsPATCH(g, s, a, "USD", 2)
  /\ UNCHANGED environment

ScopedIncrement ==
  /\ \E g \in ScopedGuests, s \in ScopedSessions, a \in ScopedAmounts :
       IncrementPOST(g, s, a, "USD", 2)
  /\ UNCHANGED environment

ScopedPoll ==
  /\ \E g \in ScopedGuests, s \in ScopedSessions : PollPOST(g, s)
  /\ UNCHANGED environment

\* 0.30 arrives on u1
ScopedReceives ==
  /\ network["u1"] = 0
  /\ network' = [network EXCEPT !["u1"] = 30]
  /\ UNCHANGED <<store, issuedIds, request, response, streamed, wallet, inflight,
                 page, viewerCounts>>

ScopeNext ==
  \/ ScopedRegister
  \/ ScopedRatchet
  \/ ScopedIncrement
  \/ ScopedPoll
  \/ ScopedReceives

SpecScope == GateInit /\ [][ScopeNext]_vars

(***************************************************************************)
(* SpecPollWrite: polls of guests with and without a record, with and      *)
(* without registered URLs, the record of g1 in the session's currency and *)
(* scale or in those of its registration.                                  *)
(***************************************************************************)
WrittenAmounts == {20, 29, 30}
WritingGuests == {"g1", "g2"}

WriteRegisterUrl ==
  /\ \E code \in AssetCodes : GuestPaymentsPOST("g1", "s1", "u1", code, 2)
  /\ UNCHANGED environment

WriteRatchet ==
  /\ \E g \in WritingGuests : GuestPaymentsPATCH(g, "s1", 20, "USD", 2)
  /\ UNCHANGED environment

WriteReceives ==
  /\ \E amount \in WrittenAmounts :
       /\ amount > network["u1"]
       /\ network' = [network EXCEPT !["u1"] = amount]
  /\ UNCHANGED <<store, issuedIds, request, response, streamed, wallet, inflight,
                 page, viewerCounts>>

WritePoll ==
  /\ \E g \in WritingGuests : PollPOST(g, "s1")
  /\ UNCHANGED environment

\* the host changes the scale of the session's amounts
WritePatchSession ==
  /\ \E sc \in AssetScales : SessionPATCH("s1", 50, "USD", sc)
  /\ UNCHANGED environment

PollWriteNext ==
  \/ WritePatchSession
  \/ WriteRegisterUrl
  \/ WriteRatchet
  \/ WriteReceives
  \/ WritePoll

SpecPollWrite == GateInit /\ [][PollWriteNext]_vars

(***************************************************************************)
(* The poll step by step: the loop awaits the fetch of one URL after the   *)
(* other.  elapsed counts the seconds the fetches have taken; fetch has no *)
(* timeout, the resource server decides how long it takes.                 *)
(***************************************************************************)
\* up to the loop: 400, nothing to poll, or the record and its URL list
pollStart(p, guestId, sessionId) ==
  /\ inflight[p].pc = "idle"
  /\ IF guestId = "" \/ sessionId = ""
       THEN /\ request' = [op |-> "poll", guestId |-> guestId, sessionId |-> sessionId]
            /\ response' = Reply(400)
            /\ UNCHANGED inflight
       ELSE IF \/ ~hasGuestPayment(guestPayments, guestId, sessionId)
               \/ getGuestPayment(guestPayments, guestId, sessionId)
                    .incomingPaymentUrls = <<>>
         THEN /\ request' = [op |-> "poll", guestId |-> guestId,
                             sessionId |-> sessionId]
              /\ response' = ReplyPoll(Number(0), 0)
              /\ UNCHANGED inflight
         ELSE /\ inflight' = [inflight EXCEPT ![p] =
                   [pc |-> "polling", guestId |-> guestId, sessionId |-> sessionId,
                    guestPayment |-> getGuestPayment(guestPayments, guestId, sessionId),
                    urls |-> getGuestPayment(guestPayments, guestId, sessionId)
                               .incomingPaymentUrls,
                    totalReceived |-> Number(0), elapsed |-> 0]]
              /\ UNCHANGED <<request, response>>
  /\ UNCHANGED <<store, issuedIds>>

\* one turn of the loop: await getIncomingPayment of the next URL, which
\* answers after ticks seconds
pollFetch(p, ticks) ==
  /\ inflight[p].pc = "polling"
  /\ inflight[p].urls # <<>>
  /\ inflight' = [inflight EXCEPT
       ![p].totalReceived = pollUrl(@, Head(inflight[p].urls),
                                    inflight[p].guestPayment.assetScale),
       ![p].urls = Tail(@),
       ![p].elapsed = @ + ticks]
  /\ UNCHANGED <<store, issuedIds, request, response>>

\* after the loop: the write of a greater aggregate, and the answer
pollWrite(p) ==
  /\ inflight[p].pc = "polling"
  /\ inflight[p].urls = <<>>
  /\ LET guestId == inflight[p].guestId
         sessionId == inflight[p].sessionId
         guestPayment == inflight[p].guestPayment
         totalReceived == inflight[p].totalReceived
         previousTotal == guestPayment.totalReceived
         updated == updateGuestBalance(guestPayments, guestId, sessionId,
                      totalReceived.value, guestPayment.assetCode,
                      guestPayment.assetScale, FALSE)
     IN /\ request' = [op |-> "poll", guestId |-> guestId, sessionId |-> sessionId]
        /\ response' = ReplyPoll(totalReceived, previousTotal)
        /\ IF GreaterThan(totalReceived, Number(previousTotal))
             THEN /\ InRange(updated.totalReceived)
                  /\ guestPayments' =
                       Put(guestPayments, Key(guestId, sessionId), updated)
                  /\ guestBalances' =
                       Put(guestBalances, Key(guestId, sessionId),
                           updated.totalReceived)
             ELSE UNCHANGED <<guestPayments, guestBalances>>
  /\ inflight' = [inflight EXCEPT ![p] = [pc |-> "idle"]]
  /\ UNCHANGED <<sessions, questions, payments, issuedIds>>

(***************************************************************************)
(* SpecPollTime: polls of guest g1 whose URLs take their time to answer.   *)
(***************************************************************************)
TimeRegisterUrl ==
  /\ \E u \in PolledUrls : GuestPaymentsPOST("g1", "s1", u, "USD", 2)
  /\ UNCHANGED environment

StartPoll ==
  /\ \E p \in Submissions, g \in PollGuests : pollStart(p, g, "s1")
  /\ UNCHANGED <<network, streamed, wallet, page, viewerCounts>>

FetchUrl ==
  /\ \E p \in Submissions, ticks \in 1..MaxFetch : pollFetch(p, ticks)
  /\ UNCHANGED <<network, streamed, wallet, page, viewerCounts>>

WritePolled ==
  /\ \E p \in Submissions : pollWrite(p)
  /\ UNCHANGED <<network, streamed, wallet, page, viewerCounts>>

PollTimeNext ==
  \/ TimeRegisterUrl
  \/ WriteReceives
  \/ StartPoll
  \/ FetchUrl
  \/ WritePolled

SpecPollTime == GateInit /\ [][PollTimeNext]_vars

(***************************************************************************)
(* SpecPollFair: the polls of guest g1 that the page keeps sending, each   *)
(* of them carried through to its write and answer.                        *)
(***************************************************************************)
RepeatPoll ==
  /\ \E p \in Submissions : pollStart(p, "g1", "s1")
  /\ UNCHANGED <<network, streamed, wallet, page, viewerCounts>>

AnswerUrl ==
  /\ \E p \in Submissions : pollFetch(p, 1)
  /\ UNCHANGED <<network, streamed, wallet, page, viewerCounts>>

PollFairNext ==
  \/ TimeRegisterUrl
  \/ WriteReceives
  \/ RepeatPoll
  \/ AnswerUrl
  \/ WritePolled

SpecPollFair ==
  /\ GateInit
  /\ [][PollFairNext]_vars
  /\ WF_vars(RepeatPoll)
  /\ WF_vars(AnswerUrl)
  /\ WF_vars(WritePolled)

(***************************************************************************)
(* SpecCross: two guests of session s1 who both have paid, and whose       *)
(* submissions may name any submitter.                                     *)
(***************************************************************************)
CrossAmounts == {50, 100}
CrossBodies ==
  {[guestId |-> g, sessionId |-> "s1", submitterWalletAddress |-> w,
    status |-> "", payment |-> FALSE] : g \in GuestIds, w \in GuestIds \cup {""}}

CrossRatchet ==
  /\ \E g \in GuestIds, a \in CrossAmounts : GuestPaymentsPATCH(g, "s1", a, "USD", 2)
  /\ UNCHANGED environment

CrossReadBalance ==
  /\ \E g \in GuestIds : GuestPaymentsGET(g, "s1")
  /\ UNCHANGED environment

CrossSubmit ==
  /\ \E body \in CrossBodies : QuestionsPOST(body)
  /\ UNCHANGED environment

CrossNext ==
  \/ CrossRatchet
  \/ CrossReadBalance
  \/ CrossSubmit

SpecCross == GateInit /\ [][CrossNext]_vars

(***************************************************************************)
(* SpecLive: the host starts, ends and deletes session s1 while guest g1   *)
(* pays and questions are submitted, through the form and by requests of   *)
(* other clients.                                                          *)
(***************************************************************************)
LiveAmounts == {50, 100, 150}

StartOrEndSession ==
  /\ \E action \in {"start", "end"} : SessionPATCHStatus("s1", action)
  /\ UNCHANGED environment

LiveRatchet ==
  /\ \E a \in LiveAmounts : GuestPaymentsPATCH("g1", "s1", a, "USD", 2)
  /\ UNCHANGED environment

SubmitForm ==
  /\ handleSubmit
  /\ UNCHANGED <<network, streamed, wallet, inflight, viewerCounts>>

SubmitRequest ==
  /\ \E body \in RaceBodies : QuestionsPOST(body)
  /\ UNCHANGED environment

LiveNext ==
  \/ StartOrEndSession
  \/ DeleteSession
  \/ LiveRatchet
  \/ SubmitForm
  \/ SubmitRequest

SpecLive == GateInit /\ [][LiveNext]_vars

(***************************************************************************)
(* SpecViewers: viewers join and leave session s1, the leaves step by      *)
(* step, and the count is read, before and after the session is deleted    *)
(* (the route does not look at the session).                               *)
(***************************************************************************)
JoinViewers ==
  /\ ViewersPOSTJoin("s1")
  /\ UNCHANGED <<network, streamed, wallet, inflight, page>>

LeaveViewers ==
  /\ \E p \in Submissions : ViewersPOSTLeaveDecr(p, "s1")
  /\ UNCHANGED <<network, streamed, wallet, page>>

ResetViewers ==
  /\ \E p \in Submissions : ViewersPOSTLeaveReset(p)
  /\ UNCHANGED <<network, streamed, wallet, page>>

ReadViewers ==
  /\ ViewersGET("s1")
  /\ UNCHANGED <<network, streamed, wallet, inflight, page>>

ViewersNext ==
  \/ DeleteSession
  \/ JoinViewers
  \/ LeaveViewers
  \/ ResetViewers
  \/ ReadViewers

SpecViewers == GateInit /\ [][ViewersNext]_vars

(***************************************************************************)
(* SpecUpvote: viewers upvote the question of session s1 while the host    *)
(* works on it.                                                            *)
(***************************************************************************)
UpvoteHostActions == {"answer", "complete", "skip"}

AskQuestion ==
  /\ \E body \in RaceBodies : QuestionsPOST(body)
  /\ UNCHANGED environment

HostAction ==
  /\ \E id \in 1..MaxQuestions, action \in UpvoteHostActions :
       QuestionsPATCH(id, action, "")
  /\ UNCHANGED environment

ReadForUpvote ==
  /\ \E p \in Submissions, id \in 1..MaxQuestions : QuestionsPATCHUpvoteRead(p, id)
  /\ UNCHANGED <<network, streamed, wallet, page, viewerCounts>>

WriteUpvote ==
  /\ \E p \in Submissions : QuestionsPATCHUpvoteWrite(p)
  /\ UNCHANGED <<network, streamed, wallet, page, viewerCounts>>

UpvoteNext ==
  \/ AskQuestion
  \/ HostAction
  \/ ReadForUpvote
  \/ WriteUpvote

SpecUpvote == GateInit /\ [][UpvoteNext]_vars

(***************************************************************************)
(* SpecInvite: the host generates invitations for session s1, co-hosts     *)
(* claim them, and the requests interleave.                                *)
(***************************************************************************)
InvitedHosts == {2, 3, 5}
ClaimedTokens == Tokens \cup {"none"}

BeginInvite ==
  /\ \E p \in Submissions, h \in InvitedHosts : generateInviteRead(p, "s1", h)
  /\ UNCHANGED <<network, streamed, wallet, page, viewerCounts>>

LoadTokens ==
  /\ \E p \in Submissions : generateInviteLoad(p)
  /\ UNCHANGED <<network, streamed, wallet, page, viewerCounts>>

StoreTokens ==
  /\ \E p \in Submissions : generateInviteStore(p)
  /\ UNCHANGED <<network, streamed, wallet, page, viewerCounts>>

ClaimInvite ==
  /\ \E p \in Submissions, t \in ClaimedTokens : claimCoHostTokenRead(p, "s1", t)
  /\ UNCHANGED <<network, streamed, wallet, page, viewerCounts>>

StoreClaim ==
  /\ \E p \in Submissions : claimCoHostTokenWrite(p)
  /\ UNCHANGED <<network, streamed, wallet, page, viewerCounts>>

InviteNext ==
  \/ BeginInvite
  \/ LoadTokens
  \/ StoreTokens
  \/ ClaimInvite
  \/ StoreClaim

SpecInvite == GateInit /\ [][InviteNext]_vars

(***************************************************************************)
(* SpecUpdateRace: ratchet and increment updates of guest g1 in session s1 *)
(* that interleave on the one record.                                      *)
(***************************************************************************)
RaceDeltas == {25, 50}
RaceTotals == {50, 100}
RaceGuests == {"", "g1"}

BeginIncrement ==
  /\ \E p \in Submissions, g \in RaceGuests, d \in RaceDeltas :
       updateGuestBalanceRead(p, "increment", g, "s1", d, "USD", 2)
  /\ UNCHANGED <<network, streamed, wallet, page, viewerCounts>>

BeginRatchet ==
  /\ \E p \in Submissions, g \in RaceGuests, a \in RaceTotals :
       updateGuestBalanceRead(p, "ratchet", g, "s1", a, "USD", 2)
  /\ UNCHANGED <<network, streamed, wallet, page, viewerCounts>>

CreateRecord ==
  /\ \E p \in Submissions : updateGuestBalanceCreate(p)
  /\ UNCHANGED <<network, streamed, wallet, page, viewerCounts>>

WriteRecord ==
  /\ \E p \in Submissions : updateGuestBalanceWrite(p)
  /\ UNCHANGED <<network, streamed, wallet, page, viewerCounts>>

RespondUpdate ==
  /\ \E p \in Submissions : updateGuestBalanceRespond(p)
  /\ UNCHANGED <<network, streamed, wallet, page, viewerCounts>>

UpdateRaceNext ==
  \/ BeginIncrement
  \/ BeginRatchet
  \/ CreateRecord
  \/ WriteRecord
  \/ RespondUpdate

SpecUpdateRace == GateInit /\ [][UpdateRaceNext]_vars

(***************************************************************************)
(* SpecPage: the viewer page of guest g1 while money arrives on the        *)
(* incoming payments of the monetization stream.                           *)
(***************************************************************************)
MonetizationUrl ==
  /\ \E u \in PolledUrls : handleMonetization(u)
  /\ UNCHANGED <<network, streamed, wallet, inflight, viewerCounts>>

VerifyUrl ==
  /\ \E u \in PolledUrls : verifyPaymentReceipt(u)
  /\ UNCHANGED <<network, streamed, wallet, inflight, viewerCounts>>

Remount ==
  /\ remount
  /\ UNCHANGED <<network, streamed, wallet, inflight, viewerCounts>>

PollPayments ==
  /\ pollPayments
  /\ UNCHANGED <<network, streamed, wallet, inflight, viewerCounts>>

PageNext ==
  \/ MonetizationUrl
  \/ VerifyUrl
  \/ Remount
  \/ PollPayments
  \/ WalletReceives

SpecPage == GateInit /\ [][PageNext]_vars

(***************************************************************************)
(* Properties of the balance reconciler (checked under Spec).              *)
(***************************************************************************)
\* the stored total of (guestId, sessionId) in the map gp, 0 without a record
StoredTotal(gp, guestId, sessionId) ==
  IF hasGuestPayment(gp, guestId, sessionId)
    THEN getGuestPayment(gp, guestId, sessionId).totalReceived
    ELSE 0

\* the record of (guestId, sessionId) is stored in the currency and scale
\* of its session, which exists
InSessionCurrency(gp, guestId, sessionId) ==
  /\ hasSession(sessionId)
  /\ hasGuestPayment(gp, guestId, sessionId)
  /\ getGuestPayment(gp, guestId, sessionId).assetCode = sessions[sessionId].assetCode
  /\ getGuestPayment(gp, guestId, sessionId).assetScale = sessions[sessionId].assetScale

\* the step is a successful request of the route op
Served(op) == request'.op = op /\ response'.status = 200

\* C1 as claimed: every ratchet update leaves the stored totalReceived of
\* its (guestId, sessionId) greater than or equal to its value before.
C1_RatchetNeverLowersTotal ==
  [][Served("ratchet") =>
       StoredTotal(guestPayments', request'.guestId, request'.sessionId)
         >= StoredTotal(guestPayments, request'.guestId, request'.sessionId)]_vars

\* C1 as amended: a ratchet update of a record that does not exist yet, or
\* that is already stored in the currency and scale of its existing
\* session, leaves totalReceived greater than or equal to its value before.
C1_RatchetMonotoneOnceReconciled ==
  [][(/\ Served("ratchet")
      /\ \/ ~hasGuestPayment(guestPayments, request'.guestId, request'.sessionId)
         \/ InSessionCurrency(guestPayments, request'.guestId, request'.sessionId))
     => StoredTotal(guestPayments', request'.guestId, request'.sessionId)
          >= StoredTotal(guestPayments, request'.guestId, request'.sessionId)]_vars

\* a stale report (29) in the session's currency has arrived for a record
\* that holds more, and the higher total is still stored
C1_Witness ==
  /\ request.op = "ratchet" /\ response.status = 200
  /\ InSessionCurrency(guestPayments, request.guestId, request.sessionId)
  /\ request.assetCode = sessions[request.sessionId].assetCode
  /\ request.assetScale = sessions[request.sessionId].assetScale
  /\ request.totalReceived = 29
  /\ StoredTotal(guestPayments, request.guestId, request.sessionId) > 29

\* C2: an increment with a non-negative delta that is expressed in the
\* session's currency and scale, on a record that is new or already in the
\* session's currency, adds exactly the delta to the stored totalReceived;
\* so n such increments from no prior total store the sum of the n deltas.
C2_IncrementsAddUpToSum ==
  [][(/\ Served("increment")
      /\ hasSession(request'.sessionId)
      /\ request'.assetCode = sessions[request'.sessionId].assetCode
      /\ request'.assetScale = sessions[request'.sessionId].assetScale
      /\ request'.amountReceived >= 0
      /\ \/ ~hasGuestPayment(guestPayments, request'.guestId, request'.sessionId)
         \/ InSessionCurrency(guestPayments, request'.guestId, request'.sessionId))
     => StoredTotal(guestPayments', request'.guestId, request'.sessionId)
          = StoredTotal(guestPayments, request'.guestId, request'.sessionId)
            + request'.amountReceived]_vars

TotalInSessionScale(guestPayment, sessionId) ==
  IF guestPayment.assetCode # sessions[sessionId].assetCode
     \/ guestPayment.assetScale # sessions[sessionId].assetScale
    THEN FloorConvert(guestPayment.totalReceived, guestPayment.assetScale,
                      sessions[sessionId].assetScale)
    ELSE guestPayment.totalReceived

\* the amount of an update request, converted to the session's scale when
\* the currency or scale the route passes on differs from the session's
IncomingInSessionScale(amount, assetCode, assetScale, sessionId) ==
  IF OrUSD(assetCode) # sessions[sessionId].assetCode
     \/ OrTwo(assetScale) # sessions[sessionId].assetScale
    THEN FloorConvert(amount, OrTwo(assetScale), sessions[sessionId].assetScale)
    ELSE amount

BalanceWasRead ==
  /\ request.op = "getBalance" /\ response.status = 200
  /\ request.guestId # "" /\ hasSession(request.sessionId)
  /\ hasGuestPayment(guestPayments, request.guestId, request.sessionId)

\* T: the stored total of the request's record in the session's scale
ReadTotal ==
  TotalInSessionScale(getGuestPayment(guestPayments, request.guestId,
                                      request.sessionId), request.sessionId)

\* p: the question price of the request's session
ReadPrice == sessions[request.sessionId].questionPrice

\* u: the questions of the request's guest that are not pending_payment
ReadUsed == creditsUsed(request.guestId, request.sessionId)

\* C6: getGuestBalance returns questionCredits = max(0, floor(T / p) - u)
\* when p > 0 and 0 when p = 0, and never a negative number.
C6_QuestionCreditsFormula ==
  BalanceWasRead =>
    /\ response.questionCredits >= 0
    /\ response.questionCredits =
         IF ReadPrice > 0 THEN Max(0, (ReadTotal \div ReadPrice) - ReadUsed) ELSE 0

\* T = 100, p = 50, u = 0 gives 2 credits
C6_Witness ==
  /\ BalanceWasRead
  /\ ReadTotal = 100 /\ ReadPrice = 50 /\ ReadUsed = 0
  /\ response.questionCredits = 2

\* C7: getGuestBalance returns balance = max(0, T - u * p), never negative.
C7_BalanceFormula ==
  BalanceWasRead =>
    /\ response.balance >= 0
    /\ response.balance = Max(0, ReadTotal - ReadUsed * ReadPrice)

\* a record stored as 100 at scale 0, read for a session of scale 2 with
\* one question used: the balance is 10000 - 50
C7_Witness ==
  /\ BalanceWasRead
  /\ getGuestPayment(guestPayments, request.guestId, request.sessionId).assetScale = 0
  /\ sessions[request.sessionId].assetScale = 2
  /\ ReadTotal = 10000 /\ ReadPrice = 50 /\ ReadUsed = 1
  /\ response.balance = 9950

\* C9: a balance read for a (guestId, sessionId) without record, or whose
\* session does not exist, is answered 200 with balance 0, totalReceived 0
\* and questionCredits 0.
C9_MissingReadsAsZero ==
  (/\ request.op = "getBalance"
   /\ request.guestId # ""
   /\ \/ ~hasGuestPayment(guestPayments, request.guestId, request.sessionId)
      \/ ~hasSession(request.sessionId))
  => /\ response.status = 200
     /\ response.balance = 0
     /\ response.totalReceived = 0
     /\ response.questionCredits = 0

\* the guest has a record with money but the session is gone, and the read
\* answered 200
C9_Witness ==
  /\ request.op = "getBalance" /\ response.status = 200
  /\ request.guestId = "g1"
  /\ ~hasSession(request.sessionId)
  /\ StoredTotal(guestPayments, request.guestId, request.sessionId) = 100

\* a guest without record has read a balance of an existing session
C9_WitnessNoRecord ==
  /\ request.op = "getBalance" /\ response.status = 200
  /\ request.guestId = "g2"
  /\ hasSession(request.sessionId)
  /\ ~hasGuestPayment(guestPayments, request.guestId, request.sessionId)

(***************************************************************************)
(* Properties of the poll (SpecPoll).                                      *)
(***************************************************************************)
\* the maximum of a non-empty finite set of integers
MaxOf(S) == CHOOSE m \in S : \A x \in S : x <= m

\* the URLs of a record, as a set
UrlsOf(guestPayment) ==
  {guestPayment.incomingPaymentUrls[i] :
     i \in 1..Len(guestPayment.incomingPaymentUrls)}

\* the amount URL u reports, in smallest units of scale assetScale
ReportedAt(u, assetScale) ==
  (network[u] * Pow10(assetScale)) \div Pow10(wallet[u].assetScale)

\* a poll of guest g in session s is answered while the guest has URLs
\* registered
Polled(g, s) ==
  /\ request'.op = "poll" /\ response'.status = 200
  /\ request'.guestId = g /\ request'.sessionId = s
  /\ hasGuestPayment(guestPayments, g, s)
  /\ getGuestPayment(guestPayments, g, s).incomingPaymentUrls # <<>>

\* C11: when every registered URL of the guest reports its received amount,
\* the aggregate of a poll is the maximum over the URLs of the reported
\* amount converted to the record's scale.
C11_PollAggregateIsMaximum ==
  [][\A g \in GuestIds, s \in SessionIds :
       (/\ Polled(g, s)
        /\ \A u \in UrlsOf(getGuestPayment(guestPayments, g, s)) :
             isIncomingPaymentUrl(u) /\ wallet[u].kind = "ok")
       => /\ ~response'.nan
          /\ response'.totalReceived =
               MaxOf({ReportedAt(u, getGuestPayment(guestPayments, g, s).assetScale) :
                        u \in UrlsOf(getGuestPayment(guestPayments, g, s))})]_vars


\* no URL occurs twice in the list
Distinct(seq) == \A i, j \in 1..Len(seq) : seq[i] = seq[j] => i = j

\* C12: after a registration the URL list of the record holds the
\* registered URL and no URL twice; a registration of a URL that is
\* already present leaves the URL list and totalReceived unchanged.
C12_RegistrationIsIdempotent ==
  [][Served("registerUrl") =>
       LET g == request'.guestId
           s == request'.sessionId
           u == request'.incomingPaymentUrl
           after == getGuestPayment(guestPayments', g, s)
       IN /\ Includes(after.incomingPaymentUrls, u)
          /\ Distinct(after.incomingPaymentUrls)
          /\ (hasGuestPayment(guestPayments, g, s)
              /\ Includes(getGuestPayment(guestPayments, g, s).incomingPaymentUrls, u))
             => /\ after.incomingPaymentUrls
                     = getGuestPayment(guestPayments, g, s).incomingPaymentUrls
                /\ after.totalReceived
                     = getGuestPayment(guestPayments, g, s).totalReceived]_vars

\* u1 has been registered again after u2 and a poll that stored 30: the
\* list is still u1, u2 and the total 30
C12_Witness ==
  /\ request.op = "registerUrl" /\ response.status = 200
  /\ request.incomingPaymentUrl = "u1"
  /\ hasGuestPayment(guestPayments, "g1", "s1")
  /\ getGuestPayment(guestPayments, "g1", "s1").incomingPaymentUrls = <<"u1", "u2">>
  /\ getGuestPayment(guestPayments, "g1", "s1").totalReceived = 30

(***************************************************************************)
(* Properties of the two update paths together (SpecDualReport) and of     *)
(* the credit gate (SpecGate).                                             *)
(***************************************************************************)
\* C3: the stored totalReceived of the guest never exceeds the amount A
\* received on the guest's incoming payment, which the increments report
\* piece by piece and the ratchet reports as a whole.
C3_NoDoubleCounting ==
  StoredTotal(guestPayments, "g1", "s1") <= network["u1"]

\* the credits guest g has earned in session s: floor(totalReceived / price)
CreditsEarned(g, s) ==
  StoredTotal(guestPayments, g, s) \div sessions[s].questionPrice

\* C4: with requests processed one at a time, the number of a guest's
\* questions that are not pending_payment never exceeds
\* floor(totalReceived / questionPrice) of that guest.
C4_NoQuestionWithoutCredit ==
  \A g \in GuestIds, s \in SessionIds :
    (hasSession(s) /\ sessions[s].questionPrice > 0)
      => creditsUsed(g, s) <= CreditsEarned(g, s)

\* the credits the claim attributes to guest g in session s, 0 without
\* record: max(0, floor(T / p) - u)
AvailableCredits(g, s) ==
  IF hasGuestPayment(guestPayments, g, s) /\ sessions[s].questionPrice > 0
    THEN Max(0, (TotalInSessionScale(getGuestPayment(guestPayments, g, s), s)
                   \div sessions[s].questionPrice)
                - Cardinality({i \in QuestionIds :
                     /\ questions[i].sessionId = s
                     /\ \/ questions[i].submitterWalletAddress = g
                        \/ questions[i].guestId = g
                     /\ questions[i].status # "pending_payment"}))
    ELSE 0

\* C5: a submission that carries a guestId, for an existing session in
\* which that guest has 0 credits or no record, is answered 402 and leaves
\* the questions and payments stores unchanged.
C5_RefusedWithoutCredit ==
  [][(/\ request'.op = "createQuestion"
      /\ request'.guestId # ""
      /\ hasSession(request'.sessionId)
      /\ AvailableCredits(request'.guestId, request'.sessionId) = 0)
     => /\ response'.status = 402
        /\ UNCHANGED store]_vars

\* a guest with 25 received (no credit at price 50) has been refused
C5_Witness ==
  /\ request.op = "createQuestion" /\ response.status = 402
  /\ request.guestId = "g1"
  /\ hasSession(request.sessionId)
  /\ StoredTotal(guestPayments, "g1", request.sessionId) = 25
  /\ questions = <<>>

\* the step persists one question that counts for guest g in session s
\* with status paid, and changes neither the guest's total nor the session
AcceptsPaidQuestionOf(g, s) ==
  /\ request'.op = "createQuestion" /\ response'.status = 201
  /\ Len(questions') = Len(questions) + 1
  /\ questions'[Len(questions')].sessionId = s
  /\ questions'[Len(questions')].status = "paid"
  /\ \/ questions'[Len(questions')].submitterWalletAddress = g
     \/ questions'[Len(questions')].guestId = g
  /\ UNCHANGED <<sessions, guestPayments>>

\* C8: when a guest has c >= 1 credits and one question of that guest is
\* persisted with status paid, the next getGuestBalance reports c - 1
\* credits and a balance lower by exactly the question price.
C8_AcceptingConsumesOneCredit ==
  [][\A g \in GuestIds, s \in SessionIds :
       (AcceptsPaidQuestionOf(g, s) /\ getGuestBalance(g, s).questionCredits >= 1)
       => /\ getGuestBalance(g, s)'.questionCredits
               = getGuestBalance(g, s).questionCredits - 1
          /\ getGuestBalance(g, s)'.balance
               = getGuestBalance(g, s).balance - sessions[s].questionPrice]_vars

\* price 50, total 100, one question accepted: 1 credit and a balance of 50
\* are left
C8_Witness ==
  /\ request.op = "createQuestion" /\ response.status = 201
  /\ request.guestId = "g1"
  /\ hasSession("s1")
  /\ StoredTotal(guestPayments, "g1", "s1") = 100
  /\ Len(questions) = 1 /\ questions[1].status = "paid"
  /\ getGuestBalance("g1", "s1").questionCredits = 1
  /\ getGuestBalance("g1", "s1").balance = 50


(***************************************************************************)
(* Properties of the credits over all requests (SpecGate) and of the       *)
(* conversion the update paths apply (Spec).                               *)
(***************************************************************************)
\* the questionCredits a balance read reports for guest g in session s
ReportedCredits(g, s) == getGuestBalance(g, s).questionCredits

\* C13: the questionCredits of a guest change only by decreasing in a step
\* that creates a question carrying the guest's id, or by increasing in a
\* step that increases the guest's stored totalReceived.
C13_CreditsChangeOnlyByQuestionOrPayment ==
  [][\A g \in GuestIds, s \in SessionIds :
       ReportedCredits(g, s)' # ReportedCredits(g, s)
       => \/ /\ ReportedCredits(g, s)' < ReportedCredits(g, s)
             /\ request'.op = "createQuestion" /\ response'.status = 201
             /\ request'.guestId = g /\ request'.sessionId = s
          \/ /\ ReportedCredits(g, s)' > ReportedCredits(g, s)
             /\ StoredTotal(guestPayments', g, s) > StoredTotal(guestPayments, g, s)]_vars

\* the questionCredits of guest g in session s after a ratchet request of
\* the client with the amount totalReceived
CreditsAfterRatchet(g, s, totalReceived) ==
  LET updated == updateGuestBalance(guestPayments, g, s, totalReceived,
                                    OrUSD("USD"), OrTwo(2), FALSE)
  IN questionCreditsOf(TotalInSessionScale(updated, s) \div sessions[s].questionPrice,
                       creditsUsed(g, s))

\* C14: with the payment network reporting the same received amounts, the
\* questionCredits of a guest after a ratchet request are the same whatever
\* amount the client puts into the request.
C14_CreditsIndependentOfClientAmount ==
  \A g \in GatePayers, s \in SessionIds :
    (hasSession(s) /\ sessions[s].questionPrice > 0)
    => \A a1, a2 \in GateAmounts \cup {0} :
         CreditsAfterRatchet(g, s, a1) = CreditsAfterRatchet(g, s, a2)

\* an update request for an existing session without record of the guest
FirstUpdate ==
  /\ request'.op \in {"ratchet", "increment"}
  /\ request'.guestId # "" /\ request'.sessionId # ""
  /\ hasSession(request'.sessionId)
  /\ ~hasGuestPayment(guestPayments, request'.guestId, request'.sessionId)

\* the amount of the update request of the step
RequestAmount ==
  IF request'.op = "ratchet" THEN request'.totalReceived ELSE request'.amountReceived

\* the total a first update stores when its amount counts as `amount`
\* units of the session
FirstTotal(amount) == IF request'.op = "ratchet" THEN Max(0, amount) ELSE amount

\* C15: an update whose amount comes at the scale of the session (a scale
\* the route passes on as it is), with the same or another currency code,
\* stores exactly that amount: the conversion from scale s to scale s is
\* the identity.
C15_SameScaleConversionIsIdentity ==
  [][(/\ FirstUpdate
      /\ RequestAmount >= 0
      /\ request'.assetScale # 0
      /\ request'.assetScale = sessions[request'.sessionId].assetScale)
     => /\ response'.status = 200
        /\ StoredTotal(guestPayments', request'.guestId, request'.sessionId)
             = RequestAmount]_vars

\* C16: an update whose currency code or scale differs from the session's
\* is answered 200 and applied to
\* floor(amount / 10^sourceScale * 10^sessionScale).
C16_MismatchIsConvertedNeverRefused ==
  [][(/\ FirstUpdate
      /\ request'.assetCode # ""
      /\ \/ request'.assetCode # sessions[request'.sessionId].assetCode
         \/ request'.assetScale # sessions[request'.sessionId].assetScale)
     => /\ response'.status = 200
        /\ StoredTotal(guestPayments', request'.guestId, request'.sessionId)
             = FirstTotal((RequestAmount
                             * Pow10(sessions[request'.sessionId].assetScale))
                          \div Pow10(request'.assetScale))]_vars

\* C19: an update request that supplies assetScale 0 for a session of the
\* same currency at scale 0 has its amount taken at scale 0, that is, as
\* it is.
C19_ScaleZeroIsKept ==
  [][(/\ FirstUpdate
      /\ request'.assetScale = 0
      /\ sessions[request'.sessionId].assetScale = 0
      /\ request'.assetCode = sessions[request'.sessionId].assetCode)
     => StoredTotal(guestPayments', request'.guestId, request'.sessionId)
          = FirstTotal(RequestAmount)]_vars


(***************************************************************************)
(* Properties of the poll with failing URLs (SpecPoll) and of interleaved  *)
(* submissions (SpecRace).                                                 *)
(***************************************************************************)
\* URL u answers a GET with a received amount
Answers(u) == isIncomingPaymentUrl(u) /\ wallet[u].kind = "ok"

\* the amount the route reads from the answer of URL u, in smallest units
\* of scale assetScale
ReadAt(u, assetScale) ==
  (receivedInSmallestUnit(network[u], wallet[u].assetScale) * Pow10(assetScale))
    \div Pow10(wallet[u].assetScale)

\* C18: whatever URLs fail, a poll is answered with success and with the
\* maximum of the amounts read from the URLs that did answer (0 if none
\* did), and the stored total is not lowered.
C18_FailingUrlsAreSkipped ==
  [][\A g \in GuestIds, s \in SessionIds :
       Polled(g, s)
       => /\ ~response'.nan
          /\ response'.totalReceived =
               MaxOf({0} \cup
                     {ReadAt(u, getGuestPayment(guestPayments, g, s).assetScale) :
                        u \in {v \in UrlsOf(getGuestPayment(guestPayments, g, s)) :
                                 Answers(v)}})
          /\ StoredTotal(guestPayments', g, s) >= StoredTotal(guestPayments, g, s)]_vars

\* C17: no question submission is answered with the generic failure 500:
\* a refusal for lack of a credit is always the 402 rejection.
C17_RefusalIsNeverSystemFailure ==
  ~(request.op = "createQuestion" /\ response.status = 500)

\* the credits guest g has earned in session s by the stored total
EarnedCredits(g, s) ==
  IF hasGuestPayment(guestPayments, g, s)
    THEN TotalInSessionScale(getGuestPayment(guestPayments, g, s), s)
           \div sessions[s].questionPrice
    ELSE 0

\* submission p of guest g is past both checks, having read 1 credit
PassedWithOneCredit(p, g) ==
  /\ inflight[p].pc = "deducted"
  /\ inflight[p].body.guestId = g
  /\ inflight[p].seen = 1

\* C20: when two submissions of a guest have both read questionCredits = 1
\* and passed the checks before either question is written, each of them
\* is persisted with 201 when it reaches createQuestion; once the used
\* credits exceed the earned ones the reported questionCredits are 0, and
\* the questions already stored are left as they are.
C20_RaceAdmitsBothSubmissions ==
  [][\A p, q \in Submissions :
       (/\ p # q
        /\ PassedWithOneCredit(p, "g1")
        /\ \/ PassedWithOneCredit(q, "g1")
           \/ /\ inflight[q].pc = "idle"
              /\ creditsUsed("g1", "s1") >= EarnedCredits("g1", "s1")
        /\ inflight'[p].pc = "idle")
       => /\ response'.status = 201
          /\ questions' = Append(questions, questions'[Len(questions')])
          /\ questions'[Len(questions')].guestId = "g1"
          /\ questions'[Len(questions')].status = "paid"
          /\ inflight'[q] = inflight[q]
          /\ creditsUsed("g1", "s1")' > EarnedCredits("g1", "s1")'
             => ReportedCredits("g1", "s1")' = 0]_vars

\* both racing questions of g1 are stored against one earned credit
C20_Witness ==
  /\ request.op = "createQuestion" /\ response.status = 201
  /\ inflight = NoneInFlight
  /\ Len(questions) = 2
  /\ StoredTotal(guestPayments, "g1", "s1") = 50
  /\ creditsUsed("g1", "s1") = 2
  /\ EarnedCredits("g1", "s1") = 1
  /\ ReportedCredits("g1", "s1") = 0


(***************************************************************************)
(* Properties of interleaved updates (SpecUpdateRace).                     *)
(***************************************************************************)
\* request p is an update of kind op on the record of g1 in s1 at
\* position pc
UpdateAt(p, op, pc) ==
  /\ inflight[p].pc = pc
  /\ inflight[p].op = op
  /\ inflight[p].guestId = "g1" /\ inflight[p].sessionId = "s1"

\* the step writes the record of request p
Writes(p) == inflight[p].pc = "loaded" /\ inflight'[p].pc = "written"

C22_RatchetKeepsHigherValueUnderRaces ==
  [][\A p \in Submissions :
       (/\ Writes(p)
        /\ inflight[p].guestId = "g1"
        /\ \/ inflight[p].op = "ratchet"
           \/ \E q \in Submissions \ {p} :
                inflight[q].pc # "idle" /\ inflight[q].op = "ratchet")
       => StoredTotal(guestPayments', "g1", "s1")
            >= StoredTotal(guestPayments, "g1", "s1")]_vars


(***************************************************************************)
(* Properties of the host actions (SpecGate).                              *)
(***************************************************************************)
HostActions == {"answer", "complete", "skip", "upvote"}

\* C23: a host action answer, complete, skip or upvote on a question that
\* has been accepted (its status is not pending_payment) leaves the
\* creditsUsed of every guest unchanged and the questionCredits of no
\* guest higher.
C23_ConsumptionIsPermanent ==
  [][(/\ request'.op = "patchQuestion"
      /\ request'.action \in HostActions
      /\ hasQuestion(request'.id)
      /\ questions[request'.id].status # "pending_payment")
     => \A g \in GuestIds, s \in SessionIds :
          /\ creditsUsed(g, s)' = creditsUsed(g, s)
          /\ ReportedCredits(g, s)' <= ReportedCredits(g, s)]_vars

\* the paid question of g1 has been skipped and still uses its credit
C23_Witness ==
  /\ request.op = "patchQuestion" /\ request.action = "skip"
  /\ response.status = 200
  /\ Len(questions) = 1
  /\ questions[1].guestId = "g1" /\ questions[1].status = "skipped"
  /\ StoredTotal(guestPayments, "g1", "s1") = 100
  /\ creditsUsed("g1", "s1") = 1
  /\ ReportedCredits("g1", "s1") = 1


(***************************************************************************)
(* Properties of the viewer page (SpecPage).                               *)
(***************************************************************************)
\* the step is a registration of URL u sent by the page of g1 and answered
\* ok: the page's state changes and loses nothing
Registers(u) ==
  /\ Served("registerUrl")
  /\ request'.guestId = "g1" /\ request'.incomingPaymentUrl = u
  /\ page' # page
  /\ page.incomingPaymentUrls \subseteq page'.incomingPaymentUrls
  /\ \A v \in Urls : page'.verifying[v] >= page.verifying[v]

\* URL u is in the stored list of g1
Registered(u) ==
  /\ hasGuestPayment(guestPayments, "g1", "s1")
  /\ Includes(getGuestPayment(guestPayments, "g1", "s1").incomingPaymentUrls, u)

Answered == request' # request \/ response' # response

\* the step is a balance read (GET /api/guest-payments)
ReadsBalance == Answered /\ request'.op = "getBalance"

\* the step is the route's check of submission p: refused with 402, or on
\* to the next step
ChecksGate(p) ==
  /\ inflight[p].pc = "idle"
  /\ \/ inflight'[p].pc \in {"checked", "deducted"}
     \/ Answered /\ request'.op = "createQuestion" /\ response'.status = 402

\* the step is the deductGuestCredit of submission p
Deducts(p) == inflight[p].pc = "checked" /\ inflight'[p].pc # "checked"

\* C25: a balance read, the route's credit check and deductGuestCredit
\* leave sessions, payment records, stored balances, questions and payments
\* unchanged, whether the balance is found, is null, or the re-check throws.
C25_GateAndBalanceReadWriteNothing ==
  [][(ReadsBalance \/ \E p \in Submissions : ChecksGate(p) \/ Deducts(p))
       => store' = store]_vars

\* a deductGuestCredit has thrown after another submission of the guest
\* went through and was stored, and the paid total is still there
C25_Witness ==
  /\ request.op = "createQuestion" /\ response.status = 500
  /\ Len(questions) = 1
  /\ hasGuestPayment(guestPayments, "g1", "s1")
  /\ StoredTotal(guestPayments, "g1", "s1") = 50


\* the step is the createQuestion of submission p
Persists(p) ==
  /\ inflight[p].pc = "deducted" /\ inflight'[p].pc = "idle"
  /\ Len(questions') = Len(questions) + 1

\* C30: a question of a request that carries a guestId is stored only if
\* getGuestBalance reported at least one credit of that guest during the
\* request, also when the session of the request does not exist.
C30_PersistedQuestionsPassedGate ==
  [][\A p \in Submissions :
       Persists(p) /\ inflight[p].body.guestId # ""
         => inflight[p].seen >= 1]_vars


(***************************************************************************)
(* Properties of the record keys (SpecScope).                              *)
(***************************************************************************)
\* what getGuestPayment returns for the pair: the record, or nothing
RecordOf(gp, guestId, sessionId) ==
  IF hasGuestPayment(gp, guestId, sessionId)
    THEN <<getGuestPayment(gp, guestId, sessionId)>>
    ELSE <<>>

\* the step answers a registration, ratchet, increment or poll of the pair
UpdatesPair(guestId, sessionId) ==
  /\ request' # request \/ response' # response
  /\ request'.op \in {"registerUrl", "ratchet", "increment", "poll"}
  /\ request'.guestId = guestId /\ request'.sessionId = sessionId

\* C26: a registration, ratchet, increment or poll of one (guest, session)
\* pair leaves the stored record of every other pair as it was.
C26_UpdateLeavesOtherPairsUnchanged ==
  [][\A g1 \in ScopedGuests, s1 \in ScopedSessions :
       \A g2 \in ScopedGuests, s2 \in ScopedSessions :
         UpdatesPair(g1, s1) /\ <<g1, s1>> # <<g2, s2>>
           => RecordOf(guestPayments', g2, s2) = RecordOf(guestPayments, g2, s2)]_vars


(***************************************************************************)
(* Properties of the poll's write (SpecPollWrite).                         *)
(***************************************************************************)
\* the step answers a poll of the guest with success
PollAnswered(guestId) ==
  /\ request' # request \/ response' # response
  /\ request'.op = "poll" /\ request'.guestId = guestId
  /\ response'.status = 200

\* C28: a poll whose aggregate is greater than the stored total answers
\* updated = true and leaves the aggregate as the stored total; any other
\* poll answers updated = false and leaves the store unchanged; a poll of
\* a guest without record or without URLs changes nothing.
C28_PollWritesOnlyGreaterAggregate ==
  [][\A g \in WritingGuests :
       PollAnswered(g) =>
         IF \/ ~hasGuestPayment(guestPayments, g, "s1")
            \/ getGuestPayment(guestPayments, g, "s1").incomingPaymentUrls = <<>>
           THEN store' = store
           ELSE /\ response'.updated
                     = (response'.totalReceived > StoredTotal(guestPayments, g, "s1"))
                /\ IF response'.updated
                     THEN StoredTotal(guestPayments', g, "s1") = response'.totalReceived
                     ELSE store' = store]_vars


(***************************************************************************)
(* Properties of the poll's duration (SpecPollTime).                       *)
(***************************************************************************)
\* the operation timeout, in seconds (the 5000 ms of getSessionStats)
PollTimeout == 5

\* the step ends the poll of slot p with its answer
PollEnds(p) == inflight[p].pc = "polling" /\ inflight'[p].pc = "idle"

\* C29: a poll of the whole URL list answers within the operation timeout,
\* with what it has gathered by then.
C29_PollEndsWithinTimeout ==
  [][\A p \in Submissions : PollEnds(p) => inflight[p].elapsed <= PollTimeout]_vars


(***************************************************************************)
(* Properties of repeated polls (SpecPollFair).                            *)
(***************************************************************************)
\* C27: when the registered URL u1 reports the received amount R from some
\* point on and the polls of the guest keep being carried out, the stored
\* total is at least R from some point on.
C27_PollsEventuallyStoreReported ==
  \A R \in WrittenAmounts :
    <>[](Registered("u1") /\ network["u1"] = R)
      => <>[](StoredTotal(guestPayments, "g1", "s1") >= R)


(***************************************************************************)
(* Properties of the submissions of two paying guests (SpecCross).         *)
(***************************************************************************)
\* the step stores a question of a request that carries guestId
SubmittedBy(guestId) ==
  /\ Len(questions') = Len(questions) + 1
  /\ request'.op = "createQuestion" /\ request'.guestId = guestId
  /\ response'.status = 201

\* C31: a question submitted by one guest leaves the questionCredits and
\* the balance of every other guest as they were, whatever submitter the
\* request names.
C31_SubmissionLeavesOtherGuestsCredits ==
  [][\A a \in GuestIds, b \in GuestIds :
       SubmittedBy(a) /\ a # b
         => /\ getGuestBalance(b, "s1")'.questionCredits
                 = getGuestBalance(b, "s1").questionCredits
            /\ getGuestBalance(b, "s1")'.balance
                 = getGuestBalance(b, "s1").balance]_vars


(***************************************************************************)
(* Properties of the returned GuestBalance (Spec).                         *)
(***************************************************************************)
\* C32: in a returned GuestBalance the balance and the total received are
\* amounts of one unit, the balance never above the total (for a total that
\* is not negative), also when the record is not in the session's currency
\* and scale.
C32_BalanceWithinTotalReceived ==
  \A g \in GuestIds, s \in SessionIds :
    (getGuestBalance(g, s).found /\ getGuestBalance(g, s).totalReceived >= 0)
      => getGuestBalance(g, s).balance <= getGuestBalance(g, s).totalReceived

C34_QuestionsOnlyWhileLive ==
  [][Len(questions') = Len(questions) + 1
       => /\ hasSession(questions'[Len(questions')].sessionId)
          /\ getSession(questions'[Len(questions')].sessionId).status = "live"]_vars


(***************************************************************************)
(* Properties of the viewer counters (SpecViewers).                        *)
(***************************************************************************)
\* C35: the viewer count that getViewerCount reads is never negative, also
\* between the steps of a leave, and a join is never lost to a concurrent
\* leave: every join is answered with a count that includes the joiner.
C35_ViewerCountNeverNegativeNoJoinLost ==
  /\ \A s \in SessionIds : getViewerCount(s) >= 0
  /\ (request.op = "getViewers" => response.viewerCount >= 0)
  /\ (request.op = "joinViewers" => response.viewerCount >= 1)


(***************************************************************************)
(* Properties of interleaved upvotes (SpecUpvote).                         *)
(***************************************************************************)
\* the step is the write of the upvote of slot p
Upvotes(p) == inflight[p].pc = "upvoting" /\ inflight'[p].pc = "idle"

\* C36: every upvote action raises the question's upvotes by one, in any
\* interleaving, so that n of them raise it by n.
C36_EachUpvoteCounts ==
  [][\A p \in Submissions :
       Upvotes(p) => questions'[inflight[p].id].upvotes
                       = questions[inflight[p].id].upvotes + 1]_vars


(***************************************************************************)
(* Properties of the co-host invitations (SpecInvite).                     *)
(***************************************************************************)
TokensOf(ss, id) == ss[id].coHostTokens

\* the token value is in the session's list, for the host number
Claimable(ss, id, tokenValue, hostNumber) ==
  \E i \in DOMAIN TokensOf(ss, id) :
    /\ TokensOf(ss, id)[i].token = tokenValue
    /\ TokensOf(ss, id)[i].hostNumber = hostNumber

\* the step answers a generateInvite with a token
InviteAnswered ==
  /\ request' # request \/ response' # response
  /\ request'.op = "generateInvite" /\ response'.status = 200

\* C37: a session never holds two tokens of one host number; a
\* generateInvite for a host number that has a token answers with that
\* token; a token that generateInvite has returned stays in the session
\* for its host number, in every interleaving of generateInvite requests.
C37_InvitesAreUniqueAndStayClaimable ==
  [][/\ \A i, j \in DOMAIN TokensOf(sessions', "s1") :
          TokensOf(sessions', "s1")[i].hostNumber
            = TokensOf(sessions', "s1")[j].hostNumber => i = j
     /\ \A h \in HostNumbers, t \in Tokens :
          (InviteAnswered /\ request'.hostNumber = h
             /\ Claimable(sessions, "s1", t, h))
            => response'.token = t
     /\ InviteAnswered
          => Claimable(sessions', "s1", response'.token, response'.hostNumber)
     /\ \A h \in HostNumbers, t \in Tokens :
          Claimable(sessions, "s1", t, h) => Claimable(sessions', "s1", t, h)]_vars


\* the token value is in the session's list and claimed
Claimed(ss, id, tokenValue) ==
  \E i \in DOMAIN TokensOf(ss, id) :
    TokensOf(ss, id)[i].token = tokenValue /\ TokensOf(ss, id)[i].claimed

\* the step answers a claimInvite of the token value
ClaimAnswered(tokenValue) ==
  /\ request' # request \/ response' # response
  /\ request'.op = "claimInvite" /\ request'.token = tokenValue

\* C38: a claimed token stays claimed; a claim of a token of the session
\* answers with its host number, the first time and every time after, and
\* leaves it claimed; a claim of a value that is no token of the session
\* is refused and leaves the session unchanged.
C38_ClaimIsIdempotentAndMonotonic ==
  [][\A t \in ClaimedTokens :
       /\ Claimed(sessions, "s1", t) => Claimed(sessions', "s1", t)
       /\ \A h \in HostNumbers :
            (ClaimAnswered(t) /\ Claimable(sessions, "s1", t, h))
              => /\ response'.status = 200
                 /\ response'.hostNumber = h
                 /\ Claimed(sessions', "s1", t)
       /\ (ClaimAnswered(t) /\ \A h \in HostNumbers : ~Claimable(sessions, "s1", t, h))
            => /\ response'.status = 400
               /\ sessions' = sessions]_vars

====
